---- MODULE Spec2Model ----
(***************************************************************************)
(* Batch job orchestration of proxmox_batch: BatchProcessor                *)
(* (backend/batch_processor.py) driving ProxmoxClient, ClaudeAnalyzer and  *)
(* Database.  One run of run_full_analysis is a sequence of steps, one per *)
(* await / external call; every external call (hypervisor API, analysis    *)
(* service, sqlite store, filesystem) either succeeds or raises.           *)
(*                                                                         *)
(* Python values: a dict is a function over its keys, a str is a TLA+      *)
(* string, a str that is edited character by character (vm_name) is a      *)
(* sequence of symbols, None is the value None, an exception is a record   *)
(* [cls, msg, site] (str(e) = msg, site = where it was raised).            *)
(***************************************************************************)
EXTENDS Integers, Sequences, FiniteSets, TLC

VARIABLES
    settings,     \* config.Settings: batch_size and the four enable_* toggles
    hypervisor,   \* descriptors the resource provider yields, VMs then LXCs
    jobs,         \* table batch_jobs: row id -> record (id = position)
    rows,         \* table vm_analysis, in insertion order
    reports,      \* table infrastructure_reports, in insertion order
    dirs,         \* directories that exist under output_dir
    fs,           \* files under output_dir: path -> content
    run,          \* the frame of the run_full_analysis coroutine
    closes,       \* history: per job id, number of terminal-status writes applied
    psv,          \* one isolated process_single_vm call: [vm, out]
    aw,           \* isolated calls of the artifact writer: [results, calls, first]
    pb,           \* one isolated process_batch call: [vms, ends, cancel, out]
    gar,          \* one isolated get_all_resources call: [f, out]
    two,          \* two concurrent runs, each as its writes to batch_jobs
    api           \* main.py: the /batch/start request and its background task

vars ==
    <<settings, hypervisor, jobs, rows, reports, dirs, fs, run, closes, psv, aw, pb,
      gar, two, api>>

-----------------------------------------------------------------------------
(* Bounds of the model *)

\* largest inventory the resource provider yields
MaxRes == 3
\* largest configured batch_size
MaxBatch == 2
\* most descriptors of one inventory that lack a key
MaxOdd == 1
\* most calls of the artifact writer on one job directory
WriterCalls == 2

-----------------------------------------------------------------------------
(* Python values *)

None == "<None>"

Empty == [k \in {} |-> None]

\* {**f, **g}
Merge(f, g) == [k \in (DOMAIN f) \cup (DOMAIN g) |-> IF k \in DOMAIN g THEN g[k] ELSE f[k]]

\* d.get(k)
Get(d, k) == IF k \in DOMAIN d THEN d[k] ELSE None

\* truth value of d.get(k) for a str-or-None value
Truthy(v) == v # None /\ v # ""

\* "".join(symbols)
RECURSIVE Str(_)
Str(s) == IF s = <<>> THEN "" ELSE Head(s) \o Str(Tail(s))

Returned(v) == [kind |-> "return", value |-> v]
Raised(e) == [kind |-> "raise", exc |-> e]

Exc(cls, msg, site) == [cls |-> cls, msg |-> msg, site |-> site]

\* no exception
NoExc == Exc(None, None, None)

\* a returned int, and the returned None
PyInt(n) == [type |-> "int", v |-> n]
PyNone == [type |-> "NoneType"]

\* a call that has not ended
Pending == [kind |-> "pending"]

\* d[k] on a dict without the key k raises KeyError(k); str(KeyError('k')) = "'k'"
KeyError(k, site) == Exc("KeyError", "'" \o k \o "'", site)

\* json.dumps(config): the model's configs have at most one key
JsonDumps(c) ==
    IF DOMAIN c = {} THEN "{}"
    ELSE LET k == CHOOSE x \in DOMAIN c : TRUE
         IN "{\"" \o k \o "\": \"" \o c[k] \o "\"}"

\* json.dumps(config, indent=2)
JsonDumpsIndent(c) ==
    IF DOMAIN c = {} THEN "{}"
    ELSE LET k == CHOOSE x \in DOMAIN c : TRUE
         IN "{\n  \"" \o k \o "\": \"" \o c[k] \o "\"\n}"

-----------------------------------------------------------------------------
(* config.py *)

DefaultBatchSize == 5

DefaultSettings ==
    [batch_size |-> DefaultBatchSize,
     enable_terraform |-> TRUE, enable_ansible |-> TRUE,
     enable_security_review |-> TRUE, enable_optimization |-> TRUE]

Toggles == {"enable_security_review", "enable_optimization", "enable_terraform", "enable_ansible"}

\* every value of the four toggles, with a given batch size
AllSettings(b) ==
    {[DefaultSettings EXCEPT !.batch_size = b,
                             !.enable_security_review = t[1], !.enable_optimization = t[2],
                             !.enable_terraform = t[3], !.enable_ansible = t[4]]
        : t \in BOOLEAN \X BOOLEAN \X BOOLEAN \X BOOLEAN}

-----------------------------------------------------------------------------
(* The inventory: descriptors as ProxmoxClient.get_all_vms / get_all_lxcs  *)
(* build them.  A resource provider other than ProxmoxClient may yield a   *)
(* descriptor that lacks a key: "no_name" lacks vm_name, "no_status" lacks *)
(* status.                                                                 *)

Nodes == <<"pve1", "pve2">>

VmNames == << <<"web", "/", "app", " ", "1">>, <<"db">>, <<"db", "_", "1">>, <<"cache">> >>

Shapes == {"full", "no_name", "no_status"}

VmId(i) == ToString(100 + i)

Descriptor(i, type, shape) ==
    LET full == [node |-> Nodes[(i % 2) + 1],
                 vm_id |-> VmId(i),
                 vm_name |-> VmNames[((i - 1) % Len(VmNames)) + 1],
                 vm_type |-> type,
                 status |-> "running",
                 config |-> IF i % 2 = 1 THEN [cores |-> "2"] ELSE Empty]
        keep == CASE shape = "no_name" -> DOMAIN full \ {"vm_name"}
                  [] shape = "no_status" -> DOMAIN full \ {"status"}
                  [] OTHER -> DOMAIN full
    IN [k \in keep |-> full[k]]

\* an inventory of n resources: the first (n+1) \div 2 are VMs, the rest containers
Inventory(n, shape) ==
    [i \in 1..n |-> Descriptor(i, IF i <= (n + 1) \div 2 THEN "qemu" ELSE "lxc", shape[i])]

Inventories ==
    UNION {{Inventory(n, shape) :
              shape \in {s \in [1..n -> Shapes] :
                           Cardinality({i \in 1..n : s[i] # "full"}) <= MaxOdd}}
           : n \in 0..MaxRes}

-----------------------------------------------------------------------------
(* proxmox_client.py.  Each call of the hypervisor API succeeds or raises. *)

RECURSIVE Concat(_)
Concat(ss) == IF ss = <<>> THEN <<>> ELSE Head(ss) \o Concat(Tail(ss))

\* get_all_nodes: the node names, or [] when nodes.get() raises
GetAllNodes(ok) == IF ok THEN Nodes ELSE <<>>

\* faulty variant: the try block encloses the loop over the nodes, so the first
\* node whose listing raises ends the loop
PerNodeUntilFailure(nodes, type, down) ==
    LET failed == {j \in 1..Len(nodes) : nodes[j] \in down}
        upto == IF failed = {} THEN Len(nodes)
                ELSE (CHOOSE j \in failed : \A h \in failed : j <= h) - 1
    IN Concat([j \in 1..upto |->
                 SelectSeq(hypervisor, LAMBDA d : d.vm_type = type /\ d.node = nodes[j])])

\* the loop of get_all_vms / get_all_lxcs over the nodes: a node whose listing
\* raises (node in down) contributes nothing, the others their resources in order
PerNode(nodes, type, down) ==
    Concat([j \in 1..Len(nodes) |->
              IF nodes[j] \in down THEN <<>>
              ELSE SelectSeq(hypervisor, LAMBDA d : d.vm_type = type /\ d.node = nodes[j])])

GetAllVms(nodesOk, down) == PerNode(GetAllNodes(nodesOk), "qemu", down)

GetAllLxcs(nodesOk, down) == PerNode(GetAllNodes(nodesOk), "lxc", down)

\* f is what the API does during the call: f.vnodes / f.lnodes say whether nodes.get()
\* answers for get_all_vms / get_all_lxcs, f.vdown / f.ldown the nodes whose listing raises
GetAllResources(f) == GetAllVms(f.vnodes, f.vdown) \o GetAllLxcs(f.lnodes, f.ldown)

FetchFaults ==
    [vnodes : BOOLEAN, lnodes : BOOLEAN,
     vdown : SUBSET {Nodes[j] : j \in 1..Len(Nodes)},
     ldown : SUBSET {Nodes[j] : j \in 1..Len(Nodes)}]

\* the faults a run is explored with: a node that does not answer does so for
\* both listings
RunFetchFaults == {f \in FetchFaults : f.vdown = f.ldown}

\* faulty variant: the except block of get_cluster_info is missing
GetClusterInfoNoCatch(clusterOk, nodesOk) ==
    IF clusterOk
    THEN Returned([status |-> "quorate", resources |-> "resources",
                   nodes |-> GetAllNodes(nodesOk)])
    ELSE Raised(Exc("ProviderError", "hypervisor unreachable", "get_cluster_info"))

\* get_cluster_info: {} when cluster.status / cluster.resources raises,
\* "nodes" is [] when only nodes.get() raises
GetClusterInfo(clusterOk, nodesOk) ==
    IF clusterOk
    THEN Returned([status |-> "quorate", resources |-> "resources",
                   nodes |-> GetAllNodes(nodesOk)])
    ELSE Returned(Empty)

-----------------------------------------------------------------------------
(* database.py: the three tables.  A write is one sqlite transaction: it   *)
(* is applied whole (the operators below) or raises and changes nothing.   *)

Now == "ts"

NewJob(total_vms) ==
    [started_at |-> Now, completed_at |-> None, status |-> "running",
     total_vms |-> total_vms, processed_vms |-> 0, error_message |-> None]

\* create_batch_job: INSERT; the new row's id is cursor.lastrowid
CreateBatchJob(js, total_vms) == Append(js, NewJob(total_vms))

LastRowId(js) == Len(js)

\* faulty variant: the progress update closes the job (status defaults to "completed")
UpdateBatchJobDefaultCompleted(js, job_id, processed, status, error) ==
    [j \in DOMAIN js |->
        IF j # job_id THEN js[j]
        ELSE IF status \in {"completed", "running"}
             THEN [js[j] EXCEPT !.processed_vms = processed, !.status = "completed",
                                !.completed_at = Now]
             ELSE [js[j] EXCEPT !.processed_vms = processed, !.status = status,
                                !.error_message = error]]

\* faulty variant: the error text is not stored
UpdateBatchJobNoError(js, job_id, processed, status, error) ==
    [j \in DOMAIN js |->
        IF j # job_id THEN js[j]
        ELSE IF status = "completed"
             THEN [js[j] EXCEPT !.processed_vms = processed, !.status = status,
                                !.completed_at = Now]
             ELSE [js[j] EXCEPT !.processed_vms = processed, !.status = status]]

\* faulty variant: the UPDATE has no WHERE clause
UpdateBatchJobAllRows(js, job_id, processed, status, error) ==
    [j \in DOMAIN js |->
        IF status = "completed"
        THEN [js[j] EXCEPT !.processed_vms = processed, !.status = status,
                           !.completed_at = Now]
        ELSE [js[j] EXCEPT !.processed_vms = processed, !.status = status,
                           !.error_message = error]]

\* update_batch_job: UPDATE ... WHERE id = job_id
UpdateBatchJob(js, job_id, processed, status, error) ==
    [j \in DOMAIN js |->
        IF j # job_id THEN js[j]
        ELSE IF status = "completed"
             THEN [js[j] EXCEPT !.processed_vms = processed, !.status = status,
                                !.completed_at = Now]
             ELSE [js[j] EXCEPT !.processed_vms = processed, !.status = status,
                                !.error_message = error]]

RowKeys == <<"vm_id", "vm_name", "vm_type", "node", "config">>

\* the first key of keys that d lacks, or None
RECURSIVE FirstMissing(_, _)
FirstMissing(d, keys) ==
    IF keys = <<>> THEN None
    ELSE IF Head(keys) \notin DOMAIN d THEN Head(keys)
    ELSE FirstMissing(d, Tail(keys))

\* faulty variant: the INSERT of save_vm_analysis is executed twice
SaveVmAnalysisTwice(rs, batch_job_id, vm_data) ==
    IF FirstMissing(vm_data, RowKeys) # None
    THEN Raised(KeyError(FirstMissing(vm_data, RowKeys), "save_vm_analysis"))
    ELSE LET row == [batch_job_id |-> batch_job_id,
                     vm_id |-> vm_data["vm_id"], vm_name |-> vm_data["vm_name"],
                     vm_type |-> vm_data["vm_type"], node |-> vm_data["node"],
                     config |-> JsonDumps(vm_data["config"]),
                     analysis |-> Get(vm_data, "analysis"),
                     security_review |-> Get(vm_data, "security_review"),
                     optimization_recommendations |-> Get(vm_data, "optimization_recommendations"),
                     terraform_template |-> Get(vm_data, "terraform_template"),
                     ansible_playbook |-> Get(vm_data, "ansible_playbook"),
                     analyzed_at |-> Now]
         IN Returned(Append(Append(rs, row), row))

\* save_vm_analysis: the tuple of parameters raises KeyError before the INSERT
SaveVmAnalysis(rs, batch_job_id, vm_data) ==
    IF FirstMissing(vm_data, RowKeys) # None
    THEN Raised(KeyError(FirstMissing(vm_data, RowKeys), "save_vm_analysis"))
    ELSE Returned(Append(rs,
            [batch_job_id |-> batch_job_id,
             vm_id |-> vm_data["vm_id"], vm_name |-> vm_data["vm_name"],
             vm_type |-> vm_data["vm_type"], node |-> vm_data["node"],
             config |-> JsonDumps(vm_data["config"]),
             analysis |-> Get(vm_data, "analysis"),
             security_review |-> Get(vm_data, "security_review"),
             optimization_recommendations |-> Get(vm_data, "optimization_recommendations"),
             terraform_template |-> Get(vm_data, "terraform_template"),
             ansible_playbook |-> Get(vm_data, "ansible_playbook"),
             analyzed_at |-> Now]))

\* save_infrastructure_report
SaveInfrastructureReport(rp, batch_job_id, report_type, content) ==
    Append(rp, [batch_job_id |-> batch_job_id, report_type |-> report_type,
                content |-> content, created_at |-> Now])

-----------------------------------------------------------------------------
(* claude_analyzer.py.  The analysis service is a black box: a call of     *)
(* client.messages.create answers with a text, or raises.  A reply is      *)
(* [ok |-> TRUE, text |-> t] or [ok |-> FALSE, msg |-> m]; svc maps each   *)
(* artifact key to the reply the service gives for it.                     *)

ArtifactKeys ==
    <<"analysis", "security_review", "optimization_recommendations",
      "terraform_template", "ansible_playbook">>

ArtifactKeySet == {ArtifactKeys[j] : j \in 1..Len(ArtifactKeys)}

ReplyText(t) == [ok |-> TRUE, text |-> t]
ReplyError(m) == [ok |-> FALSE, msg |-> m]

\* keys of vm_data each method reads before its try block, in reading order
PromptKeys(key) ==
    CASE key = "analysis" -> <<"config", "vm_id", "vm_name", "vm_type", "node", "status">>
      [] key = "security_review" -> <<"config", "vm_type", "vm_name">>
      [] key = "optimization_recommendations" -> <<"config", "vm_type", "vm_name", "status">>
      [] key = "terraform_template" -> <<"config", "vm_type", "vm_name", "node">>
      [] key = "ansible_playbook" -> <<"config", "vm_type", "vm_name">>

\* the text each method puts before str(e) in its except block
ErrorPrefix(key) ==
    CASE key = "analysis" -> "Error during analysis: "
      [] key = "security_review" -> "Error during security review: "
      [] key = "optimization_recommendations" -> "Error generating optimizations: "
      [] key = "terraform_template" -> "# Error generating Terraform: "
      [] key = "ansible_playbook" -> "# Error generating Ansible: "

\* faulty variant: the methods have no except block, the service's exception leaves them
ServiceMethodNoCatch(key, vm_data, reply) ==
    IF FirstMissing(vm_data, PromptKeys(key)) # None
    THEN Raised(KeyError(FirstMissing(vm_data, PromptKeys(key)), key))
    ELSE IF reply.ok THEN Returned((key :> reply.text))
    ELSE Raised(Exc("APIError", reply.msg, key))

\* analyze_vm, security_review, optimization_recommendations, generate_terraform,
\* generate_ansible: build the prompt (KeyError on a missing key), call the service
\* in a try block; the except block logs vm_data['vm_id'] and returns the error text
ServiceMethod(key, vm_data, reply) ==
    IF FirstMissing(vm_data, PromptKeys(key)) # None
    THEN Raised(KeyError(FirstMissing(vm_data, PromptKeys(key)), key))
    ELSE IF reply.ok THEN Returned((key :> reply.text))
    ELSE IF "vm_id" \notin DOMAIN vm_data THEN Raised(KeyError("vm_id", key))
    ELSE Returned((key :> (ErrorPrefix(key) \o reply.msg)))

AnalyzeVm(vm_data, reply) == ServiceMethod("analysis", vm_data, reply)

\* which optional calls analyze_complete makes, in order
Included(key, st) ==
    CASE key = "analysis" -> TRUE
      [] key = "security_review" -> st.enable_security_review
      [] key = "optimization_recommendations" -> st.enable_optimization
      [] key = "terraform_template" -> st.enable_terraform
      [] key = "ansible_playbook" -> st.enable_ansible

\* faulty variant: analyze_complete returns what it has when a call's service
\* request failed
RECURSIVE AnalyzeFromStopOnFailure(_, _, _, _, _)
AnalyzeFromStopOnFailure(j, results, vm_data, st, svc) ==
    IF j > Len(ArtifactKeys) THEN Returned(results)
    ELSE IF ~Included(ArtifactKeys[j], st)
         THEN AnalyzeFromStopOnFailure(j + 1, results, vm_data, st, svc)
    ELSE LET r == ServiceMethod(ArtifactKeys[j], vm_data, svc[ArtifactKeys[j]])
         IN IF r.kind = "raise" THEN r
            ELSE IF ~svc[ArtifactKeys[j]].ok THEN Returned(Merge(results, r.value))
            ELSE AnalyzeFromStopOnFailure(j + 1, Merge(results, r.value), vm_data, st, svc)

\* analyze_complete from its j-th call on, results holding what the earlier calls
\* returned: results.update(...) after each included call, a raise ends it
RECURSIVE AnalyzeFrom(_, _, _, _, _)
AnalyzeFrom(j, results, vm_data, st, svc) ==
    IF j > Len(ArtifactKeys) THEN Returned(results)
    ELSE IF ~Included(ArtifactKeys[j], st) THEN AnalyzeFrom(j + 1, results, vm_data, st, svc)
    ELSE LET r == ServiceMethod(ArtifactKeys[j], vm_data, svc[ArtifactKeys[j]])
         IN IF r.kind = "raise" THEN r
            ELSE AnalyzeFrom(j + 1, Merge(results, r.value), vm_data, st, svc)

AnalyzeComplete(vm_data, st, svc) == AnalyzeFrom(1, Empty, vm_data, st, svc)

\* faulty variant: the except block of generate_infrastructure_summary is missing
GenerateInfrastructureSummaryNoCatch(all_analyses, cluster_info, reply) ==
    IF reply.ok THEN Returned(reply.text)
    ELSE Raised(Exc("APIError", reply.msg, "generate_infrastructure_summary"))

\* generate_infrastructure_summary: the counts go into the prompt only
GenerateInfrastructureSummary(all_analyses, cluster_info, reply) ==
    IF reply.ok THEN Returned(reply.text)
    ELSE Returned("Error generating summary: " \o reply.msg)

-----------------------------------------------------------------------------
(* batch_processor.py: process_single_vm and process_batch *)

\* faulty variant: process_single_vm has no except block
ProcessSingleVmNoCatch(vm_data, st, svc) ==
    LET miss == FirstMissing(vm_data, <<"vm_type", "vm_name", "vm_id">>)
        r == AnalyzeComplete(vm_data, st, svc)
    IN IF miss # None THEN Raised(KeyError(miss, "process_single_vm"))
       ELSE IF r.kind = "return" THEN Returned(Merge(vm_data, r.value))
       ELSE r

\* process_single_vm: the log line before the try block reads vm_type, vm_name and
\* vm_id; an exception of analyze_complete becomes an error-flagged result
ProcessSingleVm(vm_data, st, svc) ==
    LET miss == FirstMissing(vm_data, <<"vm_type", "vm_name", "vm_id">>)
        r == AnalyzeComplete(vm_data, st, svc)
    IN IF miss # None THEN Raised(KeyError(miss, "process_single_vm"))
       ELSE IF r.kind = "return" THEN Returned(Merge(vm_data, r.value))
       ELSE Returned(Merge(vm_data,
                [k \in {"analysis", "error"} |->
                    IF k = "analysis" THEN "Error: " \o r.exc.msg ELSE TRUE]))

\* isinstance(e, Exception): asyncio.CancelledError derives from BaseException
IsException(e) == e.cls # "CancelledError"

\* what gather(*tasks, return_exceptions=True) puts in its list for a task: the
\* value it returned, or the exception it raised or was cancelled with
Gathered(o) == IF o.kind = "return" THEN o.value ELSE o.exc

\* faulty variant: the loop appends every element of the gathered list
ProcessBatchKeepsAll(outs) == [j \in 1..Len(outs) |-> Gathered(outs[j])]

\* faulty variant: a result flagged "error" is filtered out like an exception
ProcessBatchDropsFlagged(outs) ==
    LET kept == SelectSeq(outs, LAMBDA o : o.kind = "return" \/ ~IsException(o.exc))
        vals == [j \in 1..Len(kept) |-> Gathered(kept[j])]
    IN SelectSeq(vals, LAMBDA v : "error" \notin DOMAIN v)

\* process_batch after the gather: outs are the tasks' outcomes in input order;
\* an element of the gathered list that is an instance of Exception is logged and
\* left out, every other element is appended
ProcessBatch(outs) ==
    LET kept == SelectSeq(outs, LAMBDA o : o.kind = "return"
                                           \/ (o.kind = "raise" /\ ~IsException(o.exc)))
    IN [j \in 1..Len(kept) |-> Gathered(kept[j])]

-----------------------------------------------------------------------------
(* batch_processor.py: the artifact writer.  A path is the sequence of its *)
(* components below output_dir; a tree is [dirs, fs].  Static texts are    *)
(* abbreviated to their first line.  The content of main.tf and site.yml,  *)
(* built with +=, is the sequence of the pieces appended.                  *)

\* faulty variant: only str.replace(' ', '_')
SanitizeSpacesOnly(name) ==
    [j \in 1..Len(name) |-> IF name[j] = " " THEN "_" ELSE name[j]]

\* str.replace(' ', '_').replace('/', '_')
Sanitize(name) ==
    [j \in 1..Len(name) |-> IF name[j] = " " \/ name[j] = "/" THEN "_" ELSE name[j]]

JobDirName(job_id) == "job_" \o ToString(job_id)

\* faulty variant: the directory name leaves out the id, f"{result['vm_type']}_{vm_name}"
VmDirNameNoId(result) ==
    <<result["vm_type"], "_">> \o Sanitize(result["vm_name"])

\* f"{result['vm_type']}_{vm_name}_{result['vm_id']}"
VmDirName(result) ==
    <<result["vm_type"], "_">> \o Sanitize(result["vm_name"]) \o <<"_", result["vm_id"]>>

\* f"{vm_name}_{result['vm_id']}.yml"
PlaybookFileName(result) == Sanitize(result["vm_name"]) \o <<"_", result["vm_id"], ".yml">>

MkDir(tree, path) == [tree EXCEPT !.dirs = @ \cup {path}]

\* faulty variant: the file is opened for appending
WriteTextAppend(tree, path, content) ==
    [tree EXCEPT !.fs = [q \in (DOMAIN @) \cup {path} |->
                            IF q # path THEN @[q]
                            ELSE IF path \in DOMAIN @ THEN @[path] \o content ELSE content]]

\* Path.write_text: creates the file or replaces its content
WriteText(tree, path, content) ==
    [tree EXCEPT !.fs = [q \in (DOMAIN @) \cup {path} |-> IF q = path THEN content ELSE @[q]]]

\* the file of each artifact key in a resource's directory
ArtifactFile(key) ==
    CASE key = "analysis" -> "analysis.md"
      [] key = "security_review" -> "security_review.md"
      [] key = "optimization_recommendations" -> "optimization_recommendations.md"
      [] key = "terraform_template" -> "main.tf"
      [] key = "ansible_playbook" -> "playbook.yml"

RECURSIVE WriteArtifacts(_, _, _, _)
WriteArtifacts(tree, vm_dir, result, j) ==
    IF j > Len(ArtifactKeys) THEN tree
    ELSE WriteArtifacts(
            IF Truthy(Get(result, ArtifactKeys[j]))
            THEN WriteText(tree, Append(vm_dir, ArtifactFile(ArtifactKeys[j])),
                           result[ArtifactKeys[j]])
            ELSE tree,
            vm_dir, result, j + 1)

\* one pass of the loop of save_individual_outputs
SaveOneOutput(tree, result, output_dir) ==
    LET vm_dir == Append(output_dir, Str(VmDirName(result)))
    IN WriteText(WriteArtifacts(MkDir(tree, vm_dir), vm_dir, result, 1),
                 Append(vm_dir, "config.json"), JsonDumpsIndent(result["config"]))

\* faulty variant: the template is read with result['terraform_template']
WriterReadsTemplate == <<"vm_name", "vm_type", "vm_id", "terraform_template", "config">>

\* the keys save_individual_outputs reads with result[...]; every other field is
\* read with result.get(...)
WriterReads == <<"vm_name", "vm_type", "vm_id", "config">>

\* the first result from x on that lacks a key read with result[...], or 0
RECURSIVE FirstBad(_, _)
FirstBad(results, x) ==
    IF x > Len(results) THEN 0
    ELSE IF FirstMissing(results[x], WriterReads) # None THEN x
    ELSE FirstBad(results, x + 1)

\* save_individual_outputs over the first upto results (all of them when it does
\* not raise; a filesystem error during result upto + 1 leaves the earlier ones)
RECURSIVE SaveIndividualOutputs(_, _, _, _)
SaveIndividualOutputs(tree, results, output_dir, upto) ==
    IF upto = 0 THEN tree
    ELSE SaveOneOutput(SaveIndividualOutputs(tree, results, output_dir, upto - 1),
                       results[upto], output_dir)

\* a call of save_individual_outputs: the tree it leaves and how it ends; a
\* KeyError ends it at the first result that lacks a key it reads
SaveIndividualOutputsCall(tree, results, output_dir) ==
    LET b == FirstBad(results, 1)
    IN IF b = 0
       THEN [tree |-> SaveIndividualOutputs(tree, results, output_dir, Len(results)),
             out |-> Returned(PyNone)]
       ELSE [tree |-> SaveIndividualOutputs(tree, results, output_dir, b - 1),
             out |-> Raised(KeyError(FirstMissing(results[b], WriterReads),
                                     "save_individual_outputs"))]

TerraformHeader == "# Proxmox Infrastructure - Generated by Proxmox Batch Processor\n\n"
VariablesTf == "variable \"proxmox_api_url\" {\n"
TerraformReadme == "# Proxmox Infrastructure - Terraform\n"
SiteHeader == "---\n# Proxmox Infrastructure - Generated by Proxmox Batch Processor\n"
AnsibleReadme == "# Proxmox Infrastructure - Ansible\n"

\* faulty variant: the loop has no "if result.get('terraform_template')"
RECURSIVE MainTfUnfiltered(_, _, _)
MainTfUnfiltered(content, results, j) ==
    IF j > Len(results) THEN content
    ELSE MainTfUnfiltered(
            content \o <<"\n# " \o Str(results[j]["vm_name"]) \o " ("
                               \o results[j]["vm_id"] \o ")\n",
                          Get(results[j], "terraform_template"), "\n\n">>,
            results, j + 1)

\* main_tf_content after the loop over results[j..]
RECURSIVE MainTf(_, _, _)
MainTf(content, results, j) ==
    IF j > Len(results) THEN content
    ELSE MainTf(
            IF Truthy(Get(results[j], "terraform_template"))
            THEN content \o <<"\n# " \o Str(results[j]["vm_name"]) \o " ("
                                    \o results[j]["vm_id"] \o ")\n",
                               results[j]["terraform_template"], "\n\n">>
            ELSE content,
            results, j + 1)

\* faulty variant: the loop appends the playbook of each resource
RECURSIVE SiteYmlWithPlaybooks(_, _, _)
SiteYmlWithPlaybooks(content, results, j) ==
    IF j > Len(results) THEN content
    ELSE SiteYmlWithPlaybooks(
            IF Truthy(Get(results[j], "ansible_playbook"))
            THEN content \o <<"    # " \o Str(results[j]["vm_name"]) \o " ("
                                    \o results[j]["vm_id"] \o ")\n",
                               results[j]["ansible_playbook"]>>
            ELSE content,
            results, j + 1)

\* playbook_content after the loop over results[j..]
RECURSIVE SiteYml(_, _, _)
SiteYml(content, results, j) ==
    IF j > Len(results) THEN content
    ELSE SiteYml(
            IF Truthy(Get(results[j], "ansible_playbook"))
            THEN content \o <<"    # " \o Str(results[j]["vm_name"]) \o " ("
                                    \o results[j]["vm_id"] \o ")\n",
                               "    # See individual playbooks for details\n\n">>
            ELSE content,
            results, j + 1)

RECURSIVE WritePlaybooks(_, _, _, _)
WritePlaybooks(tree, results, playbooks_dir, j) ==
    IF j > Len(results) THEN tree
    ELSE WritePlaybooks(
            IF Truthy(Get(results[j], "ansible_playbook"))
            THEN WriteText(tree, Append(playbooks_dir, Str(PlaybookFileName(results[j]))),
                           results[j]["ansible_playbook"])
            ELSE tree,
            results, playbooks_dir, j + 1)

ConsolidatedTerraform(tree, results, output_dir) ==
    LET terraform_dir == Append(output_dir, "terraform")
        t1 == WriteText(MkDir(tree, terraform_dir), Append(terraform_dir, "main.tf"),
                        MainTf(<<TerraformHeader>>, results, 1))
        t2 == WriteText(t1, Append(terraform_dir, "variables.tf"), VariablesTf)
    IN WriteText(t2, Append(terraform_dir, "README.md"), TerraformReadme)

ConsolidatedAnsible(tree, results, output_dir) ==
    LET ansible_dir == Append(output_dir, "ansible")
        playbooks_dir == Append(ansible_dir, "playbooks")
        t1 == WriteText(MkDir(tree, ansible_dir), Append(ansible_dir, "site.yml"),
                        SiteYml(<<SiteHeader>>, results, 1))
        t2 == WritePlaybooks(MkDir(t1, playbooks_dir), results, playbooks_dir, 1)
    IN WriteText(t2, Append(ansible_dir, "README.md"), AnsibleReadme)

\* generate_consolidated_outputs
GenerateConsolidatedOutputs(tree, results, output_dir, st) ==
    LET t1 == IF st.enable_terraform THEN ConsolidatedTerraform(tree, results, output_dir)
              ELSE tree
    IN IF st.enable_ansible THEN ConsolidatedAnsible(t1, results, output_dir) ELSE t1

-----------------------------------------------------------------------------
(* What the environment can do during a run *)

\* the replies of the analysis service during one task of a run
AllOk == [key \in ArtifactKeySet |-> ReplyText("text")]
AnalysisFails == [AllOk EXCEPT !["analysis"] = ReplyError("overloaded")]
RunSvc == {AllOk, AnalysisFails}

SummaryReplies == {ReplyText("summary text"), ReplyError("overloaded")}

\* the exceptions of the store and of the filesystem
StoreError(site) == Exc("OperationalError", "database is locked", site)
FsError(site) == Exc("OSError", "No space left on device", site)

-----------------------------------------------------------------------------
(* batch_processor.py: run_full_analysis, one action per step *)

\* the locals of run_full_analysis (job_id 0: not yet assigned), the exception caught
\* by its except block (caught), how it ended (ret, or exc when pc = "raised"), and
\* history: the store when the call began (jobs_before), whether the hypervisor
\* answered get_cluster_info (cluster_ok), the groups cut so far (groups), the number
\* of process_single_vm tasks started (calls), the service's reply to the summary,
\* the number of progress updates applied (progress_writes)
Frame0 ==
    [pc |-> "start", cluster_info |-> Empty, all_resources |-> <<>>, job_id |-> 0,
     all_results |-> <<>>, processed_count |-> 0, i |-> 0, groups |-> <<>>,
     tasks |-> <<>>, batch_results |-> <<>>, k |-> 0, summary |-> None,
     caught |-> NoExc, exc |-> NoExc, ret |-> Pending,
     jobs_before |-> <<>>, cluster_ok |-> TRUE, calls |-> 0,
     summary_reply |-> Pending, progress_writes |-> 0]

JobOutputDir == <<JobDirName(run.job_id)>>

Tree == [dirs |-> dirs, fs |-> fs]

\* faulty variant: all_resources[i:batch_size]
BatchFromStart(all_resources, i, batch_size) ==
    SubSeq(all_resources, i + 1,
           IF batch_size < Len(all_resources) THEN batch_size ELSE Len(all_resources))

\* all_resources[i:i + batch_size]
Batch(all_resources, i, batch_size) ==
    SubSeq(all_resources, i + 1,
           IF i + batch_size < Len(all_resources) THEN i + batch_size ELSE Len(all_resources))

\* history: a terminal status was written to job_id
CountClose(cl, job_id, status) ==
    IF status \in {"completed", "failed"} /\ job_id \in DOMAIN cl
    THEN [cl EXCEPT ![job_id] = @ + 1] ELSE cl

\* the except block of run_full_analysis is entered with exception e
ToExcept(e) == [run EXCEPT !.pc = "except", !.caught = e]

\* faulty variant: the check for an empty inventory is missing
NoResourcesUnchecked(all_resources) == FALSE

\* line 79: if not all_resources
NoResources(all_resources) == all_resources = <<>>

\* faulty variant: processed_count = len(batch_results)
ProcessedAssigned(processed_count, batch_results) == Len(batch_results)

\* faulty variant: processed_count += len(batch), dropped tasks included
ProcessedWholeGroup(processed_count, batch_results) ==
    processed_count + Len(run.groups[Len(run.groups)])

\* line 108: processed_count += len(batch_results)
Processed(processed_count, batch_results) == processed_count + Len(batch_results)

\* faulty variant: the summary is requested and stored before any file is written
StepAfterSummaryFirst(pc) ==
    CASE pc = "loop" -> "summary"
      [] pc = "summary" -> "report"
      [] pc = "report" -> "individual"
      [] pc = "individual" -> "summary_file"
      [] pc = "summary_file" -> "consolidated"
      [] pc = "consolidated" -> "complete"

\* faulty variant: the summary is not saved to the store
StepAfterNoReport(pc) ==
    CASE pc = "loop" -> "individual"
      [] pc = "individual" -> "summary"
      [] pc = "summary" -> "summary_file"
      [] pc = "summary_file" -> "consolidated"
      [] pc = "consolidated" -> "complete"

\* lines 113-129: the statement that follows each statement after the for loop
StepAfter(pc) ==
    CASE pc = "loop" -> "individual"
      [] pc = "individual" -> "summary"
      [] pc = "summary" -> "report"
      [] pc = "report" -> "summary_file"
      [] pc = "summary_file" -> "consolidated"
      [] pc = "consolidated" -> "complete"

\* faulty variant: the gather returns as soon as one task is done
AnySettled(tasks) == \E j \in 1..Len(tasks) : tasks[j].st = "done"

\* line 53: await asyncio.gather(...) returns when every task is done
AllSettled(tasks) == \A j \in 1..Len(tasks) : tasks[j].st = "done"

\* faulty variant: the progress update is inside the loop over batch_results
AfterSaveEach(k, n) == "progress"

\* lines 105-108: after the k-th of n results is saved comes the next save, or
\* the progress update
AfterSave(k, n) == IF k = n THEN "progress" ELSE "save"

\* line 72
FetchClusterInfo ==
    /\ run.pc = "start"
    /\ \E clusterOk \in BOOLEAN, nodesOk \in BOOLEAN :
          LET r == GetClusterInfo(clusterOk, nodesOk)
          IN run' = IF r.kind = "raise"
                    THEN [run EXCEPT !.pc = "raised", !.exc = r.exc, !.cluster_ok = clusterOk]
                    ELSE [run EXCEPT !.pc = "fetch", !.cluster_info = r.value,
                                     !.cluster_ok = clusterOk]
    /\ UNCHANGED <<settings, hypervisor, jobs, rows, reports, dirs, fs, closes, psv, aw,
                   pb, gar, two, api>>

\* lines 76-81
FetchResources ==
    /\ run.pc = "fetch"
    /\ \E f \in RunFetchFaults :
          LET all_resources == GetAllResources(f)
          IN run' = IF NoResources(all_resources)
                    THEN [run EXCEPT !.pc = "returned", !.ret = Returned(PyNone)]
                    ELSE [run EXCEPT !.pc = "create_job", !.all_resources = all_resources]
    /\ UNCHANGED <<settings, hypervisor, jobs, rows, reports, dirs, fs, closes, psv, aw,
                   pb, gar, two, api>>

\* line 84
CreateJob ==
    /\ run.pc = "create_job"
    /\ \/ /\ jobs' = CreateBatchJob(jobs, Len(run.all_resources))
          /\ closes' = Append(closes, 0)
          /\ run' = [run EXCEPT !.pc = "mkdir", !.job_id = LastRowId(jobs')]
       \/ /\ run' = [run EXCEPT !.pc = "raised", !.exc = StoreError("create_batch_job")]
          /\ UNCHANGED <<jobs, closes>>
    /\ UNCHANGED <<settings, hypervisor, rows, reports, dirs, fs, psv, aw, pb, gar, two, api>>

\* lines 88-95: the mkdir is before the try block
MakeJobDir ==
    /\ run.pc = "mkdir"
    /\ \/ /\ dirs' = MkDir(Tree, JobOutputDir).dirs
          /\ run' = [run EXCEPT !.pc = "loop", !.all_results = <<>>,
                                !.processed_count = 0, !.i = 0]
       \/ /\ run' = [run EXCEPT !.pc = "raised", !.exc = FsError("job_output_dir.mkdir")]
          /\ UNCHANGED dirs
    /\ UNCHANGED <<settings, hypervisor, jobs, rows, reports, fs, closes, psv, aw, pb,
                   gar, two, api>>

\* lines 97-101: the next group is cut and its tasks are created, or the loop ends
NextBatch ==
    /\ run.pc = "loop"
    /\ run' = IF run.i < Len(run.all_resources)
              THEN LET batch == Batch(run.all_resources, run.i, settings.batch_size)
                   IN [run EXCEPT !.pc = "gather",
                                  !.groups = Append(@, batch),
                                  !.tasks = [j \in 1..Len(batch) |->
                                               [vm |-> batch[j], st |-> "pending", out |-> Pending]]]
              ELSE [run EXCEPT !.pc = StepAfter("loop"), !.tasks = <<>>]
    /\ UNCHANGED <<settings, hypervisor, jobs, rows, reports, dirs, fs, closes, psv, aw,
                   pb, gar, two, api>>

\* the event loop starts the tasks of the gather in the order they were created
TaskStart(j) ==
    /\ run.pc = "gather"
    /\ run.tasks[j].st = "pending"
    /\ \A h \in 1..(j - 1) : run.tasks[h].st # "pending"
    /\ run' = [run EXCEPT !.tasks[j].st = "running", !.calls = @ + 1]
    /\ UNCHANGED <<settings, hypervisor, jobs, rows, reports, dirs, fs, closes, psv, aw,
                   pb, gar, two, api>>

\* a task ends, in any order: process_single_vm returns or raises
TaskFinish(j) ==
    /\ run.pc = "gather"
    /\ run.tasks[j].st = "running"
    /\ \E svc \in RunSvc :
          run' = [run EXCEPT !.tasks[j].st = "done",
                             !.tasks[j].out = ProcessSingleVm(run.tasks[j].vm, settings, svc)]
    /\ UNCHANGED <<settings, hypervisor, jobs, rows, reports, dirs, fs, closes, psv, aw,
                   pb, gar, two, api>>

\* lines 53-62 and 102: the gather is over, the results are filtered and collected
Join ==
    /\ run.pc = "gather"
    /\ AllSettled(run.tasks)
    /\ LET batch_results == ProcessBatch([j \in 1..Len(run.tasks) |-> run.tasks[j].out])
       IN run' = [run EXCEPT !.pc = IF batch_results = <<>> THEN "progress" ELSE "save",
                             !.batch_results = batch_results,
                             !.all_results = @ \o batch_results,
                             !.tasks = <<>>,
                             !.k = 1]
    /\ UNCHANGED <<settings, hypervisor, jobs, rows, reports, dirs, fs, closes, psv, aw,
                   pb, gar, two, api>>

\* lines 105-106: one pass of the loop over batch_results
SaveRow ==
    /\ run.pc = "save"
    /\ LET r == SaveVmAnalysis(rows, run.job_id, run.batch_results[run.k])
       IN \/ /\ r.kind = "return"
             /\ rows' = r.value
             /\ run' = [run EXCEPT !.k = @ + 1,
                                   !.pc = AfterSave(run.k, Len(run.batch_results))]
          \/ /\ run' = ToExcept(IF r.kind = "raise" THEN r.exc
                                ELSE StoreError("save_vm_analysis"))
             /\ UNCHANGED rows
    /\ UNCHANGED <<settings, hypervisor, jobs, reports, dirs, fs, closes, psv, aw, pb,
                   gar, two, api>>

\* lines 108-109
UpdateProgress ==
    /\ run.pc = "progress"
    /\ LET processed_count == Processed(run.processed_count, run.batch_results)
       IN \/ /\ jobs' = UpdateBatchJob(jobs, run.job_id, processed_count, "running", None)
             /\ closes' = CountClose(closes, run.job_id, "running")
             /\ run' = [run EXCEPT !.pc = "loop", !.processed_count = processed_count,
                                   !.progress_writes = @ + 1,
                                   !.i = @ + settings.batch_size,
                                   !.batch_results = <<>>, !.k = 0]
          \/ /\ run' = [ToExcept(StoreError("update_progress"))
                           EXCEPT !.processed_count = processed_count]
             /\ UNCHANGED <<jobs, closes>>
    /\ UNCHANGED <<settings, hypervisor, rows, reports, dirs, fs, psv, aw, pb, gar, two, api>>

\* line 114: save_individual_outputs writes every result, or raises part-way
SaveOutputs ==
    /\ run.pc = "individual"
    /\ \/ /\ LET t == SaveIndividualOutputs(Tree, run.all_results, JobOutputDir,
                                            Len(run.all_results))
             IN dirs' = t.dirs /\ fs' = t.fs
          /\ run' = [run EXCEPT !.pc = StepAfter("individual")]
       \/ \E upto \in 0..(Len(run.all_results) - 1) :
             /\ LET t == SaveIndividualOutputs(Tree, run.all_results, JobOutputDir, upto)
                IN dirs' = t.dirs /\ fs' = t.fs
             /\ run' = ToExcept(FsError("save_individual_outputs"))
    /\ UNCHANGED <<settings, hypervisor, jobs, rows, reports, closes, psv, aw, pb, gar, two, api>>

\* line 118: the summary is the service's text or the error text, never an exception
Summarize ==
    /\ run.pc = "summary"
    /\ \E reply \in SummaryReplies :
          LET r == GenerateInfrastructureSummary(run.all_results, run.cluster_info, reply)
          IN run' = IF r.kind = "raise"
                    THEN [ToExcept(r.exc) EXCEPT !.summary_reply = reply]
                    ELSE [run EXCEPT !.pc = StepAfter("summary"), !.summary_reply = reply,
                                     !.summary = r.value]
    /\ UNCHANGED <<settings, hypervisor, jobs, rows, reports, dirs, fs, closes, psv, aw,
                   pb, gar, two, api>>

\* line 119
SaveReport ==
    /\ run.pc = "report"
    /\ \/ /\ reports' = SaveInfrastructureReport(reports, run.job_id, "summary", run.summary)
          /\ run' = [run EXCEPT !.pc = StepAfter("report")]
       \/ /\ run' = ToExcept(StoreError("save_infrastructure_report"))
          /\ UNCHANGED reports
    /\ UNCHANGED <<settings, hypervisor, jobs, rows, dirs, fs, closes, psv, aw, pb, gar, two, api>>

\* lines 122-123
WriteSummaryFile ==
    /\ run.pc = "summary_file"
    /\ \/ /\ fs' = WriteText(Tree, Append(JobOutputDir, "infrastructure_summary.md"),
                             run.summary).fs
          /\ run' = [run EXCEPT !.pc = StepAfter("summary_file")]
       \/ /\ run' = ToExcept(FsError("summary_file.write_text"))
          /\ UNCHANGED fs
    /\ UNCHANGED <<settings, hypervisor, jobs, rows, reports, dirs, closes, psv, aw, pb,
                   gar, two, api>>

\* line 126: generate_consolidated_outputs writes everything, or raises at its
\* first write
WriteConsolidated ==
    /\ run.pc = "consolidated"
    /\ \/ /\ LET t == GenerateConsolidatedOutputs(Tree, run.all_results, JobOutputDir, settings)
             IN dirs' = t.dirs /\ fs' = t.fs
          /\ run' = [run EXCEPT !.pc = StepAfter("consolidated")]
       \/ /\ run' = ToExcept(FsError("generate_consolidated_outputs"))
          /\ UNCHANGED <<dirs, fs>>
    /\ UNCHANGED <<settings, hypervisor, jobs, rows, reports, closes, psv, aw, pb, gar, two, api>>

\* lines 129-132
MarkCompleted ==
    /\ run.pc = "complete"
    /\ \/ /\ jobs' = UpdateBatchJob(jobs, run.job_id, run.processed_count, "completed", None)
          /\ closes' = CountClose(closes, run.job_id, "completed")
          /\ run' = [run EXCEPT !.pc = "returned", !.ret = Returned(PyInt(run.job_id))]
       \/ /\ run' = ToExcept(StoreError("mark_completed"))
          /\ UNCHANGED <<jobs, closes>>
    /\ UNCHANGED <<settings, hypervisor, rows, reports, dirs, fs, psv, aw, pb, gar, two, api>>

\* lines 134-137: the handler writes FAILED and re-raises e; when its own write
\* raises, that exception leaves run_full_analysis instead
HandleException ==
    /\ run.pc = "except"
    /\ \/ /\ jobs' = UpdateBatchJob(jobs, run.job_id, run.processed_count, "failed",
                                    run.caught.msg)
          /\ closes' = CountClose(closes, run.job_id, "failed")
          /\ run' = [run EXCEPT !.pc = "raised", !.exc = run.caught]
       \/ /\ run' = [run EXCEPT !.pc = "raised", !.exc = StoreError("except")]
          /\ UNCHANGED <<jobs, closes>>
    /\ UNCHANGED <<settings, hypervisor, rows, reports, dirs, fs, psv, aw, pb, gar, two, api>>

\* the store before the run: empty, or holding the job that start_batch_job
\* (main.py) creates before it schedules the run
StoresBefore(inventory) ==
    {<<>>} \cup (IF inventory = <<>> THEN {} ELSE {<<NewJob(Len(inventory))>>})

Init ==
    /\ settings \in {[DefaultSettings EXCEPT !.batch_size = b] : b \in 1..MaxBatch}
    /\ hypervisor \in Inventories
    /\ jobs \in StoresBefore(hypervisor)
    /\ closes = [j \in DOMAIN jobs |-> 0]
    /\ rows = <<>>
    /\ reports = <<>>
    /\ dirs = {}
    /\ fs = Empty
    /\ run = [Frame0 EXCEPT !.jobs_before = jobs]
    /\ psv = None
    /\ aw = Pending
    /\ pb = Pending
    /\ gar = Pending
    /\ two = Pending
    /\ api = Pending

Next ==
    \/ FetchClusterInfo
    \/ FetchResources
    \/ CreateJob
    \/ MakeJobDir
    \/ NextBatch
    \/ \E j \in DOMAIN run.tasks : TaskStart(j)
    \/ \E j \in DOMAIN run.tasks : TaskFinish(j)
    \/ Join
    \/ SaveRow
    \/ UpdateProgress
    \/ SaveOutputs
    \/ Summarize
    \/ SaveReport
    \/ WriteSummaryFile
    \/ WriteConsolidated
    \/ MarkCompleted
    \/ HandleException

Spec == Init /\ [][Next]_vars

-----------------------------------------------------------------------------
(* process_single_vm on its own: every descriptor of the inventories, every *)
(* value of the four toggles, every combination of replies of the service  *)

PsvDescriptors == UNION {{inv[j] : j \in DOMAIN inv} : inv \in Inventories}

PsvReplies == {ReplyText("text"), ReplyText(""), ReplyError("overloaded")}

InitPSV ==
    /\ settings \in AllSettings(DefaultBatchSize)
    /\ hypervisor = <<>>
    /\ jobs = <<>>
    /\ closes = <<>>
    /\ rows = <<>>
    /\ reports = <<>>
    /\ dirs = {}
    /\ fs = Empty
    /\ run = Frame0
    /\ psv \in [vm : PsvDescriptors, svc : {None}, out : {Pending}]
    /\ aw = Pending
    /\ pb = Pending
    /\ gar = Pending
    /\ two = Pending
    /\ api = Pending

CallProcessSingleVm ==
    /\ psv.out = Pending
    /\ \E svc \in [ArtifactKeySet -> PsvReplies] :
          psv' = [psv EXCEPT !.svc = svc, !.out = ProcessSingleVm(psv.vm, settings, svc)]
    /\ UNCHANGED <<settings, hypervisor, jobs, rows, reports, dirs, fs, run, closes, aw,
                   pb, gar, two, api>>

NextPSV == CallProcessSingleVm

SpecPSV == InitPSV /\ [][NextPSV]_vars

-----------------------------------------------------------------------------
(* The artifact writer on its own: save_individual_outputs followed by     *)
(* generate_consolidated_outputs, called WriterCalls times with the same   *)
(* job id, results and settings on a job directory that starts empty.  The *)
(* results are what process_batch returns for an inventory, each resource  *)
(* analysed under one of the replies of AwSvc.                             *)

AllEmpty == [key \in ArtifactKeySet |-> ReplyText("")]
TemplatesOdd ==
    [AllOk EXCEPT !["terraform_template"] = ReplyError("overloaded"),
                  !["ansible_playbook"] = ReplyText("")]
AwSvc == {AllOk, AllEmpty, TemplatesOdd}

AwResults(inventory, st, svcs) ==
    ProcessBatch([j \in 1..Len(inventory) |-> ProcessSingleVm(inventory[j], st, svcs[j])])

AwJobId == 1

AwDir == <<JobDirName(AwJobId)>>

InitAW ==
    /\ settings \in AllSettings(DefaultBatchSize)
    /\ hypervisor \in Inventories
    /\ jobs = <<>>
    /\ closes = <<>>
    /\ rows = <<>>
    /\ reports = <<>>
    /\ dirs = {AwDir}
    /\ fs = Empty
    /\ run = Frame0
    /\ psv = None
    /\ aw \in {[results |-> AwResults(hypervisor, settings, svcs), calls |-> 0,
                 first |-> Pending, out |-> Pending]
                   : svcs \in [1..Len(hypervisor) -> AwSvc]}
    /\ pb = Pending
    /\ gar = Pending
    /\ two = Pending
    /\ api = Pending

\* lines 114 and 126 with the same arguments, once more
InvokeWriter ==
    /\ aw.calls < WriterCalls
    /\ aw.out = Pending \/ aw.out.kind = "return"
    /\ LET c == SaveIndividualOutputsCall(Tree, aw.results, AwDir)
           t == IF c.out.kind = "return"
                THEN GenerateConsolidatedOutputs(c.tree, aw.results, AwDir, settings)
                ELSE c.tree
       IN /\ dirs' = t.dirs
          /\ fs' = t.fs
          /\ aw' = [aw EXCEPT !.calls = @ + 1, !.out = c.out,
                              !.first = IF aw.calls = 0 THEN t ELSE @]
    /\ UNCHANGED <<settings, hypervisor, jobs, rows, reports, run, closes, psv, pb, gar, two, api>>

NextAW == InvokeWriter

SpecAW == InitAW /\ [][NextAW]_vars

-----------------------------------------------------------------------------
(* process_batch on its own: one call over a group; each task returns, raises *)
(* an ordinary exception (process_single_vm's log line) or is cancelled.      *)

TaskEnds == {"run", "cancelled"}

CancelledError == Exc("CancelledError", "", "process_single_vm")

InitPB ==
    /\ settings = DefaultSettings
    /\ hypervisor \in Inventories
    /\ jobs = <<>>
    /\ closes = <<>>
    /\ rows = <<>>
    /\ reports = <<>>
    /\ dirs = {}
    /\ fs = Empty
    /\ run = Frame0
    /\ psv = None
    /\ aw = Pending
    /\ pb = [vms |-> hypervisor, outs |-> <<>>, out |-> Pending]
    /\ gar = Pending
    /\ two = Pending
    /\ api = Pending

\* lines 52-62
CallProcessBatch ==
    /\ pb.out = Pending
    /\ \E ends \in [1..Len(pb.vms) -> TaskEnds], svcs \in [1..Len(pb.vms) -> RunSvc] :
          LET outs == [j \in 1..Len(pb.vms) |->
                         IF ends[j] = "cancelled" THEN Raised(CancelledError)
                         ELSE ProcessSingleVm(pb.vms[j], settings, svcs[j])]
          IN pb' = [pb EXCEPT !.outs = outs, !.out = Returned(ProcessBatch(outs))]
    /\ UNCHANGED <<settings, hypervisor, jobs, rows, reports, dirs, fs, run, closes, psv,
                   aw, gar, two, api>>

NextPB == CallProcessBatch

SpecPB == InitPB /\ [][NextPB]_vars

-----------------------------------------------------------------------------
(* get_all_resources on its own: every inventory, every combination of     *)
(* failures of the node list and of the per-node listings.                 *)

InitGAR ==
    /\ settings = DefaultSettings
    /\ hypervisor \in Inventories
    /\ jobs = <<>>
    /\ closes = <<>>
    /\ rows = <<>>
    /\ reports = <<>>
    /\ dirs = {}
    /\ fs = Empty
    /\ run = Frame0
    /\ psv = None
    /\ aw = Pending
    /\ pb = Pending
    /\ gar = [f |-> None, out |-> Pending]
    /\ two = Pending
    /\ api = Pending

\* lines 89-93
CallGetAllResources ==
    /\ gar.out = Pending
    /\ \E f \in FetchFaults : gar' = [f |-> f, out |-> Returned(GetAllResources(f))]
    /\ UNCHANGED <<settings, hypervisor, jobs, rows, reports, dirs, fs, run, closes, psv, aw,
                   pb, two, api>>

NextGAR == CallGetAllResources

SpecGAR == InitGAR /\ [][NextGAR]_vars

-----------------------------------------------------------------------------
(* The run under fair scheduling: the event loop runs every coroutine that *)
(* can run, and every external call returns or raises, so a step that is   *)
(* possible is eventually taken.  The run is not cancelled.                *)

SpecFair == Spec /\ WF_vars(Next)

-----------------------------------------------------------------------------
(* Two run_full_analysis coroutines on one event loop and one store, each  *)
(* reduced to the steps that touch the table batch_jobs: the awaits        *)
(* between two writes (tasks, inserted rows, files) are one step.  Every   *)
(* Database method opens its own connection, so a create_batch_job call    *)
(* gets the id of the row it inserted.                                     *)

\* the locals of run_full_analysis that the writes to batch_jobs read
TwoFrame0 ==
    [pc |-> "create_job", job_id |-> 0, total |-> Len(hypervisor),
     processed_count |-> 0, i |-> 0, batch_results |-> <<>>]

Runs == {1, 2}

InitTwo ==
    /\ settings \in {[DefaultSettings EXCEPT !.batch_size = b] : b \in 1..MaxBatch}
    /\ hypervisor \in {Inventory(n, [i \in 1..n |-> "full"]) : n \in 1..MaxRes}
    /\ jobs \in StoresBefore(hypervisor)
    /\ closes = <<>>
    /\ rows = <<>>
    /\ reports = <<>>
    /\ dirs = {}
    /\ fs = Empty
    /\ run = Frame0
    /\ psv = None
    /\ aw = Pending
    /\ pb = Pending
    /\ gar = Pending
    /\ two = [r \in Runs |-> TwoFrame0]
    /\ api = Pending

\* line 84
TwoCreateJob(r) ==
    /\ two[r].pc = "create_job"
    /\ \/ /\ jobs' = CreateBatchJob(jobs, two[r].total)
          /\ two' = [two EXCEPT ![r].pc = "mkdir", ![r].job_id = LastRowId(jobs')]
       \/ /\ two' = [two EXCEPT ![r].pc = "raised"]
          /\ UNCHANGED jobs
    /\ UNCHANGED <<settings, hypervisor, rows, reports, dirs, fs, run, closes, psv, aw, pb,
                   gar, api>>

\* lines 88-95
TwoMakeJobDir(r) ==
    /\ two[r].pc = "mkdir"
    /\ \E pc \in {"loop", "raised"} : two' = [two EXCEPT ![r].pc = pc]
    /\ UNCHANGED <<settings, hypervisor, jobs, rows, reports, dirs, fs, run, closes, psv, aw,
                   pb, gar, api>>

\* lines 97-106: a group is analysed and its results are saved; any number of its
\* tasks may have been dropped, and a save may raise
TwoGroup(r) ==
    /\ two[r].pc = "loop"
    /\ two[r].i < two[r].total
    /\ \/ \E kept \in 0..Len(Batch(hypervisor, two[r].i, settings.batch_size)) :
             two' = [two EXCEPT ![r].pc = "progress",
                                ![r].batch_results =
                                    SubSeq(Batch(hypervisor, two[r].i, settings.batch_size),
                                           1, kept)]
       \/ two' = [two EXCEPT ![r].pc = "except"]
    /\ UNCHANGED <<settings, hypervisor, jobs, rows, reports, dirs, fs, run, closes, psv, aw,
                   pb, gar, api>>

\* lines 108-109
TwoUpdateProgress(r) ==
    /\ two[r].pc = "progress"
    /\ LET processed_count == Processed(two[r].processed_count, two[r].batch_results)
       IN \/ /\ jobs' = UpdateBatchJob(jobs, two[r].job_id, processed_count, "running", None)
             /\ two' = [two EXCEPT ![r].pc = "loop", ![r].processed_count = processed_count,
                                   ![r].i = @ + settings.batch_size,
                                   ![r].batch_results = <<>>]
          \/ /\ two' = [two EXCEPT ![r].pc = "except",
                                   ![r].processed_count = processed_count]
             /\ UNCHANGED jobs
    /\ UNCHANGED <<settings, hypervisor, rows, reports, dirs, fs, run, closes, psv, aw, pb,
                   gar, api>>

\* lines 114-126: the files and the report are written, or one of the steps raises
TwoOutputs(r) ==
    /\ two[r].pc = "loop"
    /\ two[r].i >= two[r].total
    /\ \E pc \in {"complete", "except"} : two' = [two EXCEPT ![r].pc = pc]
    /\ UNCHANGED <<settings, hypervisor, jobs, rows, reports, dirs, fs, run, closes, psv, aw,
                   pb, gar, api>>

\* lines 129-132
TwoMarkCompleted(r) ==
    /\ two[r].pc = "complete"
    /\ \/ /\ jobs' = UpdateBatchJob(jobs, two[r].job_id, two[r].processed_count,
                                    "completed", None)
          /\ two' = [two EXCEPT ![r].pc = "returned"]
       \/ /\ two' = [two EXCEPT ![r].pc = "except"]
          /\ UNCHANGED jobs
    /\ UNCHANGED <<settings, hypervisor, rows, reports, dirs, fs, run, closes, psv, aw, pb,
                   gar, api>>

\* lines 134-137
TwoHandleException(r) ==
    /\ two[r].pc = "except"
    /\ \/ /\ jobs' = UpdateBatchJob(jobs, two[r].job_id, two[r].processed_count,
                                    "failed", "error")
          /\ two' = [two EXCEPT ![r].pc = "raised"]
       \/ /\ two' = [two EXCEPT ![r].pc = "raised"]
          /\ UNCHANGED jobs
    /\ UNCHANGED <<settings, hypervisor, rows, reports, dirs, fs, run, closes, psv, aw, pb,
                   gar, api>>

NextTwo ==
    \E r \in Runs :
        \/ TwoCreateJob(r)
        \/ TwoMakeJobDir(r)
        \/ TwoGroup(r)
        \/ TwoUpdateProgress(r)
        \/ TwoOutputs(r)
        \/ TwoMarkCompleted(r)
        \/ TwoHandleException(r)

SpecTwo == InitTwo /\ [][NextTwo]_vars

-----------------------------------------------------------------------------
(* main.py: one POST /batch/start request.  start_batch_job counts the     *)
(* resources, creates a job and schedules run_batch_job_background, which  *)
(* awaits run_full_analysis (the steps of Next) and records the outcome in *)
(* the dict running_jobs.                                                  *)

\* the detail of the HTTP 500 that start_batch_job's except block raises
HTTPException(detail) == Exc("HTTPException", detail, "start_batch_job")

InitApi ==
    /\ settings \in {[DefaultSettings EXCEPT !.batch_size = b] : b \in 1..MaxBatch}
    /\ hypervisor \in Inventories
    /\ jobs = <<>>
    /\ closes = <<>>
    /\ rows = <<>>
    /\ reports = <<>>
    /\ dirs = {}
    /\ fs = Empty
    /\ run = [Frame0 EXCEPT !.pc = "unscheduled"]
    /\ psv = None
    /\ aw = Pending
    /\ pb = Pending
    /\ gar = Pending
    /\ two = Pending
    /\ api = [pc |-> "request", job_id |-> 0, running_jobs |-> "<unset>", response |-> Pending]

\* lines 168-193: an empty inventory and a failure of create_batch_job both end in
\* the except block, which answers with HTTP 500
StartBatchJob ==
    /\ api.pc = "request"
    /\ \E f \in RunFetchFaults :
          LET total_resources == Len(GetAllResources(f))
          IN IF total_resources = 0
             THEN /\ api' = [api EXCEPT !.pc = "rejected",
                                !.response = Raised(HTTPException("No resources found to analyze"))]
                  /\ UNCHANGED <<jobs, closes>>
             ELSE \/ /\ jobs' = CreateBatchJob(jobs, total_resources)
                     /\ closes' = Append(closes, 0)
                     /\ api' = [api EXCEPT !.pc = "scheduled", !.job_id = LastRowId(jobs'),
                                           !.response = Returned(PyInt(LastRowId(jobs')))]
                  \/ /\ api' = [api EXCEPT !.pc = "rejected",
                                   !.response = Raised(HTTPException("database is locked"))]
                     /\ UNCHANGED <<jobs, closes>>
    /\ UNCHANGED <<settings, hypervisor, rows, reports, dirs, fs, run, psv, aw, pb, gar, two>>

\* lines 157-160: the background task starts and calls run_full_analysis()
BackgroundStart ==
    /\ api.pc = "scheduled"
    /\ api' = [api EXCEPT !.pc = "running", !.running_jobs = "running"]
    /\ run' = [Frame0 EXCEPT !.jobs_before = jobs]
    /\ UNCHANGED <<settings, hypervisor, jobs, rows, reports, dirs, fs, closes, psv, aw, pb,
                   gar, two>>

\* lines 160-165: run_full_analysis has returned or raised; running_jobs[job_id]
\* gets "completed" or "failed"
BackgroundDone ==
    /\ api.pc = "running"
    /\ run.pc \in {"returned", "raised"}
    /\ api' = [api EXCEPT !.pc = "done",
                          !.running_jobs = IF run.pc = "returned" THEN "completed" ELSE "failed"]
    /\ UNCHANGED <<settings, hypervisor, jobs, rows, reports, dirs, fs, run, closes, psv, aw,
                   pb, gar, two>>

\* a step of run_full_analysis leaves the request's state alone
RunStep == api.pc = "running" /\ Next

NextApi ==
    \/ StartBatchJob
    \/ BackgroundStart
    \/ RunStep
    \/ BackgroundDone

SpecApi == InitApi /\ [][NextApi]_vars

-----------------------------------------------------------------------------
(* The artifact writer on result lists of a resource provider whose ids    *)
(* are arbitrary strings: an id is a sequence of symbols joined into the   *)
(* str the descriptor holds; every kind, every name of VmNames, ids        *)
(* pairwise distinct within a list.                                        *)

\* longest result list
MaxDirList == 2

DirKinds == {"qemu", "lxc"}

DirIds == {<<"101">>, <<"102">>, <<"1", "_", "101">>}

\* a descriptor whose config is particular to the resource
DirDescriptor(type, name, id) ==
    [node |-> Nodes[1], vm_id |-> Str(id), vm_name |-> name, vm_type |-> type,
     status |-> "running", config |-> [smbios1 |-> "uuid=" \o Str(id)]]

DirDescriptors ==
    {DirDescriptor(type, VmNames[n], id) : type \in DirKinds, n \in DOMAIN VmNames, id \in DirIds}

DirInventories ==
    UNION {{inv \in [1..n -> DirDescriptors] :
              \A x, y \in 1..n : x # y => inv[x]["vm_id"] # inv[y]["vm_id"]}
           : n \in 1..MaxDirList}

InitDir ==
    /\ settings = DefaultSettings
    /\ hypervisor \in DirInventories
    /\ jobs = <<>>
    /\ closes = <<>>
    /\ rows = <<>>
    /\ reports = <<>>
    /\ dirs = {AwDir}
    /\ fs = Empty
    /\ run = Frame0
    /\ psv = None
    /\ aw = [results |-> AwResults(hypervisor, settings, [j \in 1..Len(hypervisor) |-> AllOk]),
             calls |-> 0, first |-> Pending, out |-> Pending]
    /\ pb = Pending
    /\ gar = Pending
    /\ two = Pending
    /\ api = Pending

SpecDir == InitDir /\ [][NextAW]_vars

-----------------------------------------------------------------------------
(* Properties *)

RunEnded == run.pc \in {"returned", "raised"}

JobCreated == run.job_id # 0

TheJob == jobs[run.job_id]

Terminal == {"completed", "failed"}

\* the rows of vm_analysis that belong to a job, in insertion order
RowsOf(job_id) == SelectSeq(rows, LAMBDA r : r.batch_job_id = job_id)

\* ceil(n / b)
Ceil(n, b) == (n + b - 1) \div b

\* C1: when a call of run_full_analysis that created a job returns or raises, it
\* has created exactly one job record and that job is COMPLETED or FAILED.
C1_JobClosedWhenRunEnds ==
    (RunEnded /\ JobCreated) =>
        /\ Len(jobs) = Len(run.jobs_before) + 1
        /\ TheJob.status \in Terminal

\* C2: the stored processed_vms of every job never exceeds its total_vms and never
\* decreases from one state to the next, whatever was dropped.
C2_ProgressMonotoneAndBounded ==
    /\ [](\A j \in DOMAIN jobs : jobs[j].processed_vms <= jobs[j].total_vms)
    /\ [][\A j \in DOMAIN jobs : jobs'[j].processed_vms >= jobs[j].processed_vms]_vars

\* a job of three resources is COMPLETED with two processed: one task was dropped
C2_Witness ==
    /\ run.pc = "returned" /\ JobCreated
    /\ TheJob.status = "completed" /\ TheJob.total_vms = 3 /\ TheJob.processed_vms = 2
    /\ Len(run.groups) = 2

WriteSites ==
    {"save_vm_analysis", "update_progress", "save_infrastructure_report",
     "save_individual_outputs", "summary_file.write_text", "generate_consolidated_outputs"}

\* C4: whenever the store write of a result, of the progress or of the summary
\* report, or the artifact writer, raised after the job was created, the run ends
\* with the job FAILED, error_message the error's message, and that same error
\* raised to the caller.
C4_FailedRecordedThenReraised ==
    (run.pc = "raised" /\ run.caught.site \in WriteSites) =>
        /\ TheJob.status = "failed"
        /\ TheJob.error_message = run.caught.msg
        /\ run.exc = run.caught

\* C5 as stated: when the service call of the summary fails, the run ends raised
\* with the job FAILED and the service's message recorded.
C5_SummaryFailureFailsJob ==
    (RunEnded /\ run.summary_reply # Pending /\ ~run.summary_reply.ok) =>
        /\ run.pc = "raised"
        /\ TheJob.status = "failed"
        /\ TheJob.error_message = run.summary_reply.msg

\* C5 amended: when the service call of the summary fails, the summary is the text
\* "Error generating summary: <message>" and no exception; a run that returns has
\* stored that text as the report "summary" and its job is COMPLETED; the run ends
\* raised only when a later step (report write, file write, consolidated outputs,
\* COMPLETED write) raised.
C5_SummaryFailureIsEmbedded ==
    (run.summary_reply # Pending /\ ~run.summary_reply.ok) =>
        /\ run.summary = "Error generating summary: " \o run.summary_reply.msg
        /\ run.pc = "returned" =>
              /\ TheJob.status = "completed"
              /\ run.ret = Returned(PyInt(run.job_id))
              /\ \E x \in DOMAIN reports :
                    /\ reports[x].batch_job_id = run.job_id
                    /\ reports[x].report_type = "summary"
                    /\ reports[x].content = run.summary
        /\ run.pc \in {"except", "raised"} =>
              run.caught.site \in {"save_infrastructure_report", "summary_file.write_text",
                                   "generate_consolidated_outputs", "mark_completed"}

\* the summary's service call failed and the run returned its job id
C5_Witness ==
    /\ run.pc = "returned" /\ run.summary_reply # Pending /\ ~run.summary_reply.ok
    /\ TheJob.status = "completed"

\* the groups whose gather is over
JoinedGroups == IF run.pc = "gather" THEN Len(run.groups) - 1 ELSE Len(run.groups)

\* the analysis provider raises for vm_data: analyze_complete reads a key it lacks
ProviderRaises(vm_data) ==
    /\ FirstMissing(vm_data, <<"vm_type", "vm_name", "vm_id">>) = None
    /\ FirstMissing(vm_data, PromptKeys("analysis")) # None

IsFull(vm_data) == DOMAIN vm_data = DOMAIN Descriptor(1, "qemu", "full")

ResultsOf(vm_id) == {x \in DOMAIN run.all_results : run.all_results[x]["vm_id"] = vm_id}

\* the rows of the run's job are the results collected so far, in order
ResultsPersisted ==
    /\ Len(RowsOf(run.job_id)) = Len(run.all_results)
    /\ \A x \in DOMAIN run.all_results :
          /\ RowsOf(run.job_id)[x].vm_id = run.all_results[x]["vm_id"]
          /\ RowsOf(run.job_id)[x].analysis = run.all_results[x]["analysis"]

\* C6: in every group whose gather is over, a resource for which the provider
\* raised has exactly one result, flagged error with the message in analysis, and a
\* resource for which it succeeded has exactly one unflagged result; the except
\* block is never entered because of a provider error; a run that returns its job
\* id has gone through every group, persisted and counted every result, and its
\* job is COMPLETED.
C6_ProviderErrorContained ==
    /\ \A g \in 1..JoinedGroups : \A m \in DOMAIN run.groups[g] :
          LET vm_data == run.groups[g][m] IN
          /\ ProviderRaises(vm_data) =>
                /\ Cardinality(ResultsOf(vm_data["vm_id"])) = 1
                /\ \A x \in ResultsOf(vm_data["vm_id"]) :
                      /\ "error" \in DOMAIN run.all_results[x]
                      /\ run.all_results[x]["error"] = TRUE
                      /\ run.all_results[x]["analysis"] =
                            "Error: '" \o FirstMissing(vm_data, PromptKeys("analysis")) \o "'"
          /\ IsFull(vm_data) =>
                /\ Cardinality(ResultsOf(vm_data["vm_id"])) = 1
                /\ \A x \in ResultsOf(vm_data["vm_id"]) :
                      /\ "error" \notin DOMAIN run.all_results[x]
                      /\ run.all_results[x]["analysis"] \in {"text", "Error during analysis: overloaded"}
    /\ run.pc \in {"except", "raised"} => run.caught.cls # "KeyError"
    /\ (run.pc = "returned" /\ JobCreated) =>
          /\ Len(run.groups) = Ceil(Len(run.all_resources), settings.batch_size)
          /\ ResultsPersisted
          /\ TheJob.processed_vms = Len(run.all_results)
          /\ TheJob.status = "completed"

\* the provider raised for the first resource of a group of two and succeeded for
\* the second, a later group was processed and the run returned
C6_Witness ==
    /\ run.pc = "returned" /\ JobCreated
    /\ Len(run.groups) = 2 /\ Len(run.groups[1]) = 2
    /\ ProviderRaises(run.groups[1][1]) /\ IsFull(run.groups[1][2])
    /\ TheJob.status = "completed" /\ TheJob.processed_vms = 3

\* a service call made for the resource of the isolated call failed
ServiceCallFailed ==
    /\ IsFull(psv.vm)
    /\ \E key \in ArtifactKeySet : Included(key, settings) /\ ~psv.svc[key].ok

\* C7 as stated: when a service call fails, process_single_vm returns a result
\* flagged error whose only artifact field is analysis.
C7_ServiceFailureFlagsError ==
    (psv.out # Pending /\ ServiceCallFailed) =>
        /\ psv.out.kind = "return"
        /\ "error" \in DOMAIN psv.out.value
        /\ psv.out.value["error"] = TRUE
        /\ (DOMAIN psv.out.value) \cap ArtifactKeySet = {"analysis"}

\* C7 amended: process_single_vm raises exactly for a descriptor without vm_type,
\* vm_name or vm_id.  Otherwise it returns the descriptor's fields and: when
\* analyze_complete raised (the descriptor lacks a key the prompt reads), error = true,
\* analysis = "Error: <message>" and no other artifact field; else no error flag and
\* exactly the fields of the enabled categories, a field whose service call failed
\* holding that call's error text ("Error during analysis: <message>" for the base
\* analysis) and every other field the service's text.
C7_ServiceFailureIsEmbedded ==
    psv.out # Pending =>
        LET vm_data == psv.vm
            enabled == {key \in ArtifactKeySet : Included(key, settings)}
        IN /\ psv.out.kind = "raise" <=>
                 ({"vm_type", "vm_name", "vm_id"} \ DOMAIN vm_data # {})
           /\ psv.out.kind = "return" =>
                 LET v == psv.out.value IN
                 /\ \A key \in DOMAIN vm_data : v[key] = vm_data[key]
                 /\ IF ProviderRaises(vm_data)
                    THEN /\ DOMAIN v = (DOMAIN vm_data) \cup {"analysis", "error"}
                         /\ v["error"] = TRUE
                         /\ v["analysis"] = "Error: '"
                               \o FirstMissing(vm_data, PromptKeys("analysis")) \o "'"
                    ELSE /\ DOMAIN v = (DOMAIN vm_data) \cup enabled
                         /\ ~psv.svc["analysis"].ok =>
                               v["analysis"] = "Error during analysis: " \o psv.svc["analysis"].msg
                         /\ \A key \in enabled :
                               v[key] = IF psv.svc[key].ok THEN psv.svc[key].text
                                        ELSE ErrorPrefix(key) \o psv.svc[key].msg

\* the base analysis call failed with every category enabled: the result is not
\* flagged and carries the other artifact fields
C7_Witness ==
    /\ psv.out # Pending /\ psv.out.kind = "return"
    /\ IsFull(psv.vm) /\ ~psv.svc["analysis"].ok /\ psv.svc["security_review"].ok
    /\ \A key \in ArtifactKeySet : Included(key, settings)
    /\ "error" \notin DOMAIN psv.out.value
    /\ psv.out.value["analysis"] = "Error during analysis: overloaded"
    /\ psv.out.value["security_review"] = "text"

\* the hypervisor did not answer get_cluster_info
ClusterUnreachable == run.pc # "start" /\ ~run.cluster_ok

C9_EmptyInventoryIsNoWork ==
    /\ (run.pc \notin {"start", "fetch"} /\ run.all_resources = <<>>) =>
          /\ run.pc = "returned" /\ run.ret = Returned(PyNone)
          /\ jobs = run.jobs_before /\ run.job_id = 0
          /\ rows = <<>> /\ reports = <<>>
          /\ dirs = {} /\ fs = Empty
          /\ run.calls = 0 /\ run.groups = <<>>
    /\ (run.pc = "returned" /\ run.ret = Returned(PyNone)) => run.all_resources = <<>>

\* the hypervisor holds no resource and the run returned None
C9_Witness ==
    /\ hypervisor = <<>> /\ run.pc = "returned" /\ run.ret = Returned(PyNone)
    /\ run.cluster_ok

\* the k-th slice of size b of the inventory
Slice(all_resources, k, b) ==
    [m \in 1..(IF k * b <= Len(all_resources) THEN b ELSE Len(all_resources) - (k - 1) * b)
        |-> all_resources[(k - 1) * b + m]]

\* the for loop over the groups has ended
LoopDone ==
    \/ run.pc \in {"individual", "summary", "report", "summary_file", "consolidated", "complete"}
    \/ run.pc = "returned" /\ JobCreated

\* C10: the groups cut so far are the first consecutive slices of batch_size
\* resources of the inventory, in order, none empty; when the loop has ended there
\* are ceil(n / batch_size) of them; and whenever a task of a group has started,
\* every result of the groups before it is a row of the job and the job's
\* processed_vms counts them.
C10_GroupsAreSlicesAndSequential ==
    /\ \A g \in DOMAIN run.groups :
          /\ run.groups[g] = Slice(run.all_resources, g, settings.batch_size)
          /\ run.groups[g] # <<>>
    /\ Len(run.groups) <= Ceil(Len(run.all_resources), settings.batch_size)
    /\ LoopDone => Len(run.groups) = Ceil(Len(run.all_resources), settings.batch_size)
    /\ (run.pc = "gather" /\ \E j \in DOMAIN run.tasks : run.tasks[j].st # "pending") =>
          /\ ResultsPersisted
          /\ TheJob.processed_vms = Len(run.all_results)
          /\ run.calls <= Len(run.groups[Len(run.groups)])
                            + (Len(run.groups) - 1) * settings.batch_size
          /\ run.calls > (Len(run.groups) - 1) * settings.batch_size

\* three resources in groups of two: a task of the second group is running after
\* the two results of the first group were stored
C10_Witness ==
    /\ run.pc = "gather" /\ Len(run.all_resources) = 3 /\ settings.batch_size = 2
    /\ Len(run.groups) = 2 /\ Len(run.groups[1]) = 2 /\ Len(run.groups[2]) = 1
    /\ run.tasks[1].st = "running"
    /\ Len(RowsOf(run.job_id)) = 2 /\ TheJob.processed_vms = 2

\* the files written so far in the directories of the resources of the run's job
PerResourceFiles ==
    {p \in DOMAIN fs : Len(p) = 3 /\ p[1] = JobDirName(run.job_id)
                                  /\ p[2] \notin {"terraform", "ansible"}}

\* the files written so far by generate_consolidated_outputs for the run's job
ConsolidatedFiles ==
    {p \in DOMAIN fs : Len(p) >= 3 /\ p[1] = JobDirName(run.job_id)
                                   /\ p[2] \in {"terraform", "ansible"}}

\* the report "summary" of the run's job is in the store
SummaryPersisted ==
    \E x \in DOMAIN reports :
        reports[x].batch_job_id = run.job_id /\ reports[x].report_type = "summary"

\* save_individual_outputs has written the directory of every result
IndividualOutputsWritten ==
    \A x \in DOMAIN run.all_results :
        <<JobDirName(run.job_id), Str(VmDirName(run.all_results[x])), "config.json">>
            \in DOMAIN fs

C12_WriterIdempotent ==
    aw.calls >= 2 => (aw.out = Returned(PyNone) /\ Tree = aw.first)

\* the writer ran twice over two results and their playbooks
C12_Witness ==
    /\ aw.calls = 2 /\ Len(aw.results) = 2
    /\ \E p \in DOMAIN fs : Len(p) = 4 /\ p[3] = "playbooks"
    /\ Append(AwDir, "terraform") \in dirs

\* the position of a result's resource in the inventory
PosIn(inventory, result) == CHOOSE i \in DOMAIN inventory : inventory[i]["vm_id"] = result["vm_id"]

\* the results whose field key is present and non-empty, in the order of results
WithField(results, key) ==
    SelectSeq(results, LAMBDA r : key \in DOMAIN r /\ r[key] # None /\ r[key] # "")

MainTfPath == <<JobDirName(AwJobId), "terraform", "main.tf">>

\* C13: with enable_terraform, main.tf is the header followed, for exactly the
\* results whose terraform_template is present and non-empty, by a section made of
\* the label "# <vm_name> (<vm_id>)" and the template; the sections are in the
\* order of the resources in the inventory.  Without enable_terraform no
\* terraform directory is made.
C13_MainTfSections ==
    aw.calls >= 1 =>
        LET kept == WithField(aw.results, "terraform_template")
        IN /\ settings.enable_terraform =>
                 /\ MainTfPath \in DOMAIN fs
                 /\ fs[MainTfPath] =
                       <<TerraformHeader>> \o
                       Concat([x \in 1..Len(kept) |->
                                 <<"\n# " \o Str(kept[x]["vm_name"]) \o " ("
                                       \o kept[x]["vm_id"] \o ")\n",
                                   kept[x]["terraform_template"], "\n\n">>])
                 /\ \A x, y \in 1..Len(kept) :
                       x < y => PosIn(hypervisor, kept[x]) < PosIn(hypervisor, kept[y])
           /\ ~settings.enable_terraform => MainTfPath \notin DOMAIN fs

\* three results: the first and the last have a template, the second's is empty
C13_Witness ==
    /\ aw.calls >= 1 /\ settings.enable_terraform /\ Len(aw.results) = 3
    /\ Len(WithField(aw.results, "terraform_template")) = 2
    /\ Get(aw.results[2], "terraform_template") = ""
    /\ MainTfPath \in DOMAIN fs /\ Len(fs[MainTfPath]) = 7

\* the symbols of a file or directory name that are a space or a slash
BadSymbols(name) == {j \in DOMAIN name : name[j] \in {" ", "/"}}

\* C14: for every result the writer was given, the name of its directory and the
\* name of its playbook file contain no space and no '/', and the directory made
\* for it is the one of that name.
C14_NamesSanitized ==
    aw.calls >= 1 =>
        \A x \in DOMAIN aw.results :
            /\ BadSymbols(VmDirName(aw.results[x])) = {}
            /\ BadSymbols(PlaybookFileName(aw.results[x])) = {}
            /\ Append(AwDir, Str(VmDirName(aw.results[x]))) \in dirs
            /\ (settings.enable_ansible /\ WithField(<<aw.results[x]>>, "ansible_playbook") # <<>>)
                  => <<JobDirName(AwJobId), "ansible", "playbooks",
                       Str(PlaybookFileName(aw.results[x]))>> \in DOMAIN fs

\* the resource named "web/app 1" has the directory qemu_web_app_1_101 and the
\* playbook web_app_1_101.yml
C14_Witness ==
    /\ aw.calls >= 1 /\ Len(aw.results) >= 1
    /\ aw.results[1]["vm_name"] = <<"web", "/", "app", " ", "1">>
    /\ Append(AwDir, "qemu_web_app_1_101") \in dirs
    /\ <<JobDirName(AwJobId), "ansible", "playbooks", "web_app_1_101.yml">> \in DOMAIN fs

\* C15: after one call of the writer on the empty job directory, the directory of
\* every result, error-flagged or not, holds config.json with the formatted
\* config, and holds the file of an artifact exactly when the result has that field
\* present and non-empty; the call has not raised.
C15_PerResourceFiles ==
    aw.calls = 1 =>
        /\ aw.out = Returned(PyNone)
        /\ \A x \in DOMAIN aw.results :
              LET result == aw.results[x]
                  vm_dir == Append(AwDir, Str(VmDirName(result)))
              IN /\ Append(vm_dir, "config.json") \in DOMAIN fs
                 /\ fs[Append(vm_dir, "config.json")] = JsonDumpsIndent(result["config"])
                 /\ \A key \in ArtifactKeySet :
                       /\ Append(vm_dir, ArtifactFile(key)) \in DOMAIN fs
                             <=> WithField(<<result>>, key) # <<>>
                       /\ Append(vm_dir, ArtifactFile(key)) \in DOMAIN fs
                             => fs[Append(vm_dir, ArtifactFile(key))] = result[key]

\* an error-flagged result has config.json and analysis.md and nothing else, next
\* to a result that has all its files
C15_Witness ==
    /\ aw.calls = 1 /\ Len(aw.results) = 2
    /\ "error" \in DOMAIN aw.results[1] /\ "error" \notin DOMAIN aw.results[2]
    /\ {p \in DOMAIN fs : Len(p) = 3 /\ p[2] = Str(VmDirName(aw.results[1]))}
          = {Append(Append(AwDir, Str(VmDirName(aw.results[1]))), f)
                : f \in {"config.json", "analysis.md"}}
    /\ Cardinality({p \in DOMAIN fs : Len(p) = 3 /\ p[2] = Str(VmDirName(aw.results[2]))}) = 6

SiteYmlPath == <<JobDirName(AwJobId), "ansible", "site.yml">>

\* the label of a resource's section in site.yml
SiteLabel(result) ==
    "    # " \o Str(result["vm_name"]) \o " (" \o result["vm_id"] \o ")\n"

InFlight == {j \in DOMAIN run.tasks : run.tasks[j].st = "running"}

\* C17: at most batch_size tasks are in flight; the tasks that exist are those of
\* the group cut last, one per resource; a task that is in flight stays until it
\* is done, so a group is cut only when no task of the group before is in flight.
C17_InFlightWithinOneGroup ==
    /\ [](/\ Cardinality(InFlight) <= settings.batch_size
          /\ run.tasks # <<>> =>
                /\ run.pc = "gather"
                /\ Len(run.tasks) = Len(run.groups[Len(run.groups)])
                /\ \A j \in DOMAIN run.tasks :
                      run.tasks[j].vm = run.groups[Len(run.groups)][j])
    /\ [][/\ \A j \in InFlight :
                 j \in DOMAIN run'.tasks /\ run'.tasks[j].st \in {"running", "done"}
          /\ run'.groups # run.groups => InFlight = {}]_vars

\* two tasks of one group are in flight with batch_size 2
C17_Witness ==
    /\ run.pc = "gather" /\ settings.batch_size = 2
    /\ Cardinality(InFlight) = 2

\* C18: a row is inserted and the job is written only when no task exists, rows
\* are inserted one at a time, and processed_vms is written once per group, when
\* every result of the groups cut so far is a row.
C18_WritesAfterJoin ==
    /\ [](/\ run.pc = "gather" => run.progress_writes = Len(run.groups) - 1
          /\ run.pc \in {"loop", "save", "progress"} =>
                run.progress_writes + (IF run.pc = "loop" THEN 0 ELSE 1) = Len(run.groups))
    /\ [][/\ rows' # rows =>
                (run.pc = "save" /\ run.tasks = <<>> /\ Len(rows') = Len(rows) + 1)
          /\ jobs' # jobs => run.tasks = <<>>
          /\ run'.progress_writes # run.progress_writes =>
                /\ run.pc = "progress" /\ run.tasks = <<>>
                /\ ResultsPersisted
                /\ run'.progress_writes = Len(run.groups)
                /\ jobs'[run.job_id].processed_vms = Len(RowsOf(run.job_id))]_vars

\* the second progress update was applied after the third row
C18_Witness ==
    /\ run.pc = "loop" /\ run.progress_writes = 2
    /\ Len(RowsOf(run.job_id)) = 3 /\ TheJob.processed_vms = 3

\* the task of vm_data raises instead of returning a result
TaskRaises(vm_data) == ProcessSingleVm(vm_data, settings, AllOk).kind = "raise"

\* g - d for the g-th group
Kept(g) == Len(SelectSeq(run.groups[g], LAMBDA vm_data : ~TaskRaises(vm_data)))

RECURSIVE SumKept(_)
SumKept(g) == IF g = 0 THEN 0 ELSE Kept(g) + SumKept(g - 1)

RECURSIVE SumLen(_)
SumLen(g) == IF g = 0 THEN 0 ELSE Len(run.groups[g]) + SumLen(g - 1)

\* C19: the results aggregated are g - d per joined group; when a group's progress
\* update is applied, the rows, processed_count and processed_vms are the sum of
\* g - d over the groups, processed_vms having grown by the last group's g - d;
\* every task was started once; a task that raised never ends the run.
C19_DroppedNotCounted ==
    /\ [](/\ Len(run.all_results) = SumKept(JoinedGroups)
          /\ run.pc \in {"except", "raised"} => run.caught.site # "process_single_vm"
          /\ run.pc = "loop" =>
                /\ run.processed_count = SumKept(Len(run.groups))
                /\ TheJob.processed_vms = SumKept(Len(run.groups))
                /\ Len(RowsOf(run.job_id)) = SumKept(Len(run.groups))
                /\ run.calls = SumLen(Len(run.groups)))
    /\ [][run'.progress_writes # run.progress_writes =>
              jobs'[run.job_id].processed_vms - jobs[run.job_id].processed_vms
                 = Kept(Len(run.groups))]_vars

\* one of the two tasks of the first group raised, one result was counted and the
\* second group is being analysed
C19_Witness ==
    /\ run.pc = "gather" /\ Len(run.groups) = 2 /\ Len(run.groups[1]) = 2
    /\ Kept(1) = 1
    /\ TheJob.processed_vms = 1 /\ Len(RowsOf(run.job_id)) = 1
    /\ run.calls = 3

\* C20: process_batch returns, and every element of the list it returns is the
\* result of one resource of the group, no resource twice; no element is the
\* failure of a task.
C20_SettleAll ==
    pb.out # Pending =>
        /\ pb.out.kind = "return"
        /\ \A x \in DOMAIN pb.out.value :
              /\ "cls" \notin DOMAIN pb.out.value[x]
              /\ "vm_id" \in DOMAIN pb.out.value[x]
              /\ \E j \in DOMAIN pb.vms : pb.outs[j] = Returned(pb.out.value[x])
              /\ \A y \in DOMAIN pb.out.value :
                    (y # x /\ "vm_id" \in DOMAIN pb.out.value[y])
                       => pb.out.value[y]["vm_id"] # pb.out.value[x]["vm_id"]

\* the resource ids of the inventory the run fetched
InventoryIds == {run.all_resources[x]["vm_id"] : x \in DOMAIN run.all_resources}

\* C21: the rows of a job have pairwise distinct resource ids, every row of the
\* run's job is the row of a resource of the inventory the run fetched, and a
\* job the run did not create has no row.
C21_OneRowPerResource ==
    \A j \in DOMAIN jobs :
        /\ \A x, y \in DOMAIN RowsOf(j) :
              x # y => RowsOf(j)[x].vm_id # RowsOf(j)[y].vm_id
        /\ \A x \in DOMAIN RowsOf(j) :
              /\ j = run.job_id
              /\ RowsOf(j)[x].vm_id \in InventoryIds
              /\ \E y \in DOMAIN run.all_resources :
                    /\ run.all_resources[y]["vm_id"] = RowsOf(j)[x].vm_id
                    /\ run.all_resources[y]["node"] = RowsOf(j)[x].node
                    /\ run.all_resources[y]["vm_type"] = RowsOf(j)[x].vm_type

\* every resource of an inventory of three has its row, in a store that held a
\* job before the run
C21_Witness ==
    /\ Len(run.jobs_before) = 1 /\ run.job_id = 2
    /\ Len(run.all_resources) = 3
    /\ {RowsOf(2)[x].vm_id : x \in DOMAIN RowsOf(2)} = InventoryIds

\* the reports of a job that are named "summary"
SummariesOf(job_id) ==
    SelectSeq(reports, LAMBDA r : r.batch_job_id = job_id /\ r.report_type = "summary")

\* C22: a COMPLETED job has exactly one report named "summary", a RUNNING or FAILED
\* job at most one; a report row, once created, is never changed or removed.
C22_OneSummaryReport ==
    /\ [](\A j \in DOMAIN jobs :
             /\ jobs[j].status = "completed" => Len(SummariesOf(j)) = 1
             /\ jobs[j].status \in {"running", "failed"} => Len(SummariesOf(j)) <= 1)
    /\ [][/\ Len(reports') >= Len(reports)
          /\ \A x \in DOMAIN reports : reports'[x] = reports[x]]_vars

\* the summary was saved, a later write failed and the job is FAILED with its
\* one report
C22_Witness ==
    /\ JobCreated /\ run.pc = "raised"
    /\ TheJob.status = "failed"
    /\ Len(SummariesOf(run.job_id)) = 1
    /\ SummariesOf(run.job_id)[1].content = run.summary

\* the size of the group cut last
CurrentGroupSize == IF run.groups = <<>> THEN 0 ELSE Len(run.groups[Len(run.groups)])

\* C28: the rows persisted for the run's job are at least its stored processed_vms
\* and at most processed_vms plus the size of the current group; when the job is
\* COMPLETED the two are equal.
C28_RowsBracketProgress ==
    JobCreated =>
        /\ Len(RowsOf(run.job_id)) >= TheJob.processed_vms
        /\ Len(RowsOf(run.job_id)) <= TheJob.processed_vms + CurrentGroupSize
        /\ TheJob.status = "completed" => Len(RowsOf(run.job_id)) = TheJob.processed_vms

\* the row of the second group is inserted while the stored count is still that
\* of the first group of two
C28_Witness ==
    /\ run.pc = "progress" /\ Len(run.groups) = 2 /\ CurrentGroupSize = 1
    /\ TheJob.processed_vms = 2
    /\ Len(RowsOf(run.job_id)) = 3

\* the tasks of the run that were dropped: their process_single_vm raised
Dropped == SumLen(JoinedGroups) - SumKept(JoinedGroups)

\* C29: a COMPLETED job of a run in which no task was dropped has processed_vms
\* equal to total_vms; processed_vms of a COMPLETED job is below total_vms only if a
\* task was dropped.
C29_CompleteCountsAll ==
    (JobCreated /\ TheJob.status = "completed") =>
        /\ Dropped = 0 => TheJob.processed_vms = TheJob.total_vms
        /\ TheJob.processed_vms < TheJob.total_vms => Dropped > 0
        /\ TheJob.processed_vms = TheJob.total_vms - Dropped

\* a job is COMPLETED with every one of three resources counted, one of the
\* results being flagged "error"
C29_Witness ==
    /\ JobCreated /\ TheJob.status = "completed"
    /\ TheJob.total_vms = 3 /\ TheJob.processed_vms = 3 /\ Dropped = 0
    /\ \E x \in DOMAIN run.all_results : "error" \in DOMAIN run.all_results[x]

\* C30: a RUNNING job has no completed_at and no error_message, a COMPLETED job
\* has completed_at set and no error_message, a FAILED job has an error_message.
C30_StatusFields ==
    \A j \in DOMAIN jobs :
        /\ jobs[j].status \in {"running", "completed", "failed"}
        /\ jobs[j].status = "running" =>
              jobs[j].completed_at = None /\ jobs[j].error_message = None
        /\ jobs[j].status = "completed" =>
              jobs[j].completed_at # None /\ jobs[j].error_message = None
        /\ jobs[j].status = "failed" => jobs[j].error_message # None

\* a job is FAILED with the text of the exception, after a progress update that
\* wrote a null error_message
C30_Witness ==
    /\ JobCreated /\ TheJob.status = "failed"
    /\ run.progress_writes >= 1
    /\ TheJob.error_message = run.caught.msg
    /\ TheJob.completed_at = None

\* the categories the toggles enable, with the base analysis
EnabledKeys(st) ==
    {"analysis"}
       \cup (IF st.enable_security_review THEN {"security_review"} ELSE {})
       \cup (IF st.enable_optimization THEN {"optimization_recommendations"} ELSE {})
       \cup (IF st.enable_terraform THEN {"terraform_template"} ELSE {})
       \cup (IF st.enable_ansible THEN {"ansible_playbook"} ELSE {})

\* C24: for every value of the four toggles and every combination of replies of
\* the service, analyze_complete on a descriptor that holds the keys the prompts
\* read returns a result whose keys are exactly analysis plus the keys of the
\* enabled categories; each of these fields is the outcome of its own call (the
\* service's text, or that call's error text when its request failed), whatever
\* the other calls did; process_single_vm returns the descriptor merged with it.
\* analyze_complete raises only for a descriptor that lacks a key of the base
\* analysis' prompt.
C24_TogglesSelectCalls ==
    psv.out # Pending =>
        LET r == AnalyzeComplete(psv.vm, settings, psv.svc)
        IN /\ r.kind = "raise" <=> FirstMissing(psv.vm, PromptKeys("analysis")) # None
           /\ r.kind = "return" =>
                 /\ DOMAIN r.value = EnabledKeys(settings)
                 /\ \A key \in EnabledKeys(settings) :
                       r.value[key] = IF psv.svc[key].ok THEN psv.svc[key].text
                                      ELSE ErrorPrefix(key) \o psv.svc[key].msg
                 /\ psv.out = Returned(Merge(psv.vm, r.value))
                 /\ (DOMAIN psv.out.value) \cap ArtifactKeySet = EnabledKeys(settings)

\* security review and infra template enabled, the other two disabled: the
\* security review's request failed and the infra template, called after it, has
\* the service's text
C24_Witness ==
    /\ psv.out # Pending /\ psv.out.kind = "return"
    /\ settings.enable_security_review /\ ~settings.enable_optimization
    /\ settings.enable_terraform /\ ~settings.enable_ansible
    /\ psv.svc["analysis"].ok /\ ~psv.svc["security_review"].ok
    /\ (DOMAIN psv.out.value) \cap ArtifactKeySet
          = {"analysis", "security_review", "terraform_template"}
    /\ psv.out.value["security_review"] = "Error during security review: overloaded"
    /\ psv.out.value["terraform_template"] = "text"

\* the position of a node in the cluster's node list
NodeIndex(node) == CHOOSE j \in 1..Len(Nodes) : Nodes[j] = node

\* the listing of d's node for d's type was answered during the call
Listed(d) ==
    IF d.vm_type = "qemu" THEN gar.f.vnodes /\ d.node \notin gar.f.vdown
    ELSE gar.f.lnodes /\ d.node \notin gar.f.ldown

\* C25: get_all_resources returns, whatever listing fails; the list it returns
\* holds exactly the resources whose node answered the listing of their type, each
\* once; the VMs come before the containers, within a type the resources of a
\* node earlier in the node list come first, and the resources of one node keep
\* the order of the node's listing.
C25_PartialInventory ==
    gar.out # Pending =>
        /\ gar.out.kind = "return"
        /\ LET out == gar.out.value
           IN /\ \A x \in DOMAIN out : \E h \in DOMAIN hypervisor : out[x] = hypervisor[h]
              /\ \A h \in DOMAIN hypervisor :
                    Cardinality({x \in DOMAIN out : out[x] = hypervisor[h]})
                       = IF Listed(hypervisor[h]) THEN 1 ELSE 0
              /\ \A x, y \in DOMAIN out :
                    x < y =>
                       /\ out[x].vm_type = "qemu" \/ out[y].vm_type = "lxc"
                       /\ out[x].vm_type = out[y].vm_type =>
                             NodeIndex(out[x].node) <= NodeIndex(out[y].node)
                       /\ (out[x].vm_type = out[y].vm_type /\ out[x].node = out[y].node) =>
                             \E h, g \in DOMAIN hypervisor :
                                h < g /\ hypervisor[h] = out[x] /\ hypervisor[g] = out[y]

\* the first node did not answer the VM listing: of three resources, the VM of
\* the second node and the container are returned
C25_Witness ==
    /\ gar.out # Pending /\ Len(hypervisor) = 3
    /\ gar.f.vnodes /\ gar.f.lnodes
    /\ gar.f.vdown = {Nodes[1]} /\ gar.f.ldown = {}
    /\ Len(gar.out.value) = 2
    /\ gar.out.value[1].vm_type = "qemu" /\ gar.out.value[1].node = Nodes[2]
    /\ gar.out.value[2].vm_type = "lxc"

\* every resource of the inventory is in exactly one group, the groups in order
EachGroupOnce ==
    /\ Len(run.groups) = Ceil(Len(run.all_resources), settings.batch_size)
    /\ \A g \in DOMAIN run.groups :
          run.groups[g] = Slice(run.all_resources, g, settings.batch_size)

\* C26: under fair scheduling a run that has created its job (the inventory is
\* not empty) eventually returns or raises; by then its job is COMPLETED or FAILED,
\* no group was cut twice, and a run that returns has cut every group once.
C26_RunEndsJobClosed ==
    JobCreated ~>
        (/\ RunEnded
         /\ JobCreated
         /\ TheJob.status \in Terminal
         /\ Len(run.groups) <= Ceil(Len(run.all_resources), settings.batch_size)
         /\ run.pc = "returned" => EachGroupOnce)

\* termination alone: a run that has started eventually returns or raises
C26_RunEnds == (run.pc = "start") ~> RunEnded

\* the job ids the two runs obtained from create_batch_job
OwnedIds == {two[r].job_id : r \in Runs} \ {0}

\* C23: the two runs obtain different job ids; a step that changes a job record
\* is a step of the run that obtained that record's id, and it changes no other
\* record; a job record that neither run created is never changed; between its
\* own writes a run finds in its job the count it wrote last.
C23_SingleWriterPerJob ==
    /\ [](/\ (two[1].job_id # 0 /\ two[2].job_id # 0) => two[1].job_id # two[2].job_id
          /\ \A j \in DOMAIN jobs : j \notin OwnedIds => jobs[j] = NewJob(Len(hypervisor))
          /\ \A r \in Runs :
                two[r].pc \in {"loop", "progress", "complete"} =>
                   /\ jobs[two[r].job_id].processed_vms = two[r].processed_count
                   /\ jobs[two[r].job_id].status = "running")
    /\ [][\A j \in DOMAIN jobs :
             jobs'[j] # jobs[j] =>
                \E r \in Runs :
                   /\ two'[r] # two[r]
                   /\ two[r].job_id = j
                   /\ \A h \in DOMAIN jobs : h # j => jobs'[h] = jobs[h]
                   /\ \A q \in Runs : q # r => two'[q] = two[q]]_vars

\* three jobs: one created outside the runs and still as created, the job of run 2
\* COMPLETED with two resources while run 1, which created its job first, has
\* counted one
C23_Witness ==
    /\ Len(jobs) = 3
    /\ two[1].job_id = 2 /\ two[2].job_id = 3
    /\ two[1].pc = "loop" /\ jobs[2].processed_vms = 1 /\ jobs[2].status = "running"
    /\ two[2].pc = "returned" /\ jobs[3].status = "completed" /\ jobs[3].processed_vms = 2
    /\ jobs[1] = NewJob(Len(hypervisor))

\* C27: when the background task of an accepted request has finished, the store
\* holds one job record, the one whose id was returned to the client; that job is
\* COMPLETED or FAILED and its processed_vms is the count of the run.
C27_ReturnedJobIsAdvanced ==
    api.pc = "done" =>
        /\ Len(jobs) = 1
        /\ jobs[api.job_id].status \in Terminal
        /\ jobs[api.job_id].processed_vms = run.processed_count
        /\ run.job_id \in {0, api.job_id}

\* the directory save_individual_outputs makes for the x-th result
DirOf(x) == Append(AwDir, Str(VmDirName(aw.results[x])))

\* the last result whose directory is that of the x-th result
LastAt(x) ==
    CHOOSE y \in DOMAIN aw.results :
        /\ DirOf(y) = DirOf(x)
        /\ \A z \in DOMAIN aw.results : DirOf(z) = DirOf(x) => z <= y

IdsDistinct ==
    \A x, y \in DOMAIN aw.results :
        x # y => aw.results[x]["vm_id"] # aw.results[y]["vm_id"]

\* the id is the join of symbols none of which is an underscore
PlainId(id) == \E s \in DirIds : Str(s) = id /\ \A j \in DOMAIN s : s[j] # "_"

====
